---- MODULE Spec2Model ----
(***************************************************************************)
(* git-appraise, repository layer (GitRepo): archive refs, notes refs and  *)
(* the pull / push protocol between replicas.                              *)
(*                                                                         *)
(* A ref name is the sequence of its path components, so                   *)
(* refs/devtools/archives/reviews is <<"refs","devtools","archives",       *)
(* "reviews">>.  A hash is the index of an object in the object store; the *)
(* empty string of the Go code (no hash) is NoHash.  The object store is   *)
(* shared by the replicas (objects are content addressed and a fetch or a  *)
(* push carries every object a transferred ref needs); the refs are kept   *)
(* per replica.                                                            *)
(***************************************************************************)
EXTENDS Naturals, Sequences, FiniteSets, TLC

VARIABLES
    refs,       \* refs[repo]: ref name -> hash, defined on the refs that exist
    commits,    \* the commit objects of branches and archives: [parents, tree]
    notes,      \* the notes commits: [parents, tree], tree: object -> blob lines
    last,       \* the call that made the last step and what it returned
    failures,   \* the number of calls in which a git command was made to fail
    pc,         \* SpecConc: each writer's position in its call
    loc,        \* SpecConc: each writer's local variables
    phase,      \* SpecSync, SpecOrder: the position in the scenario and the
                \* annotation lines the replicas held before its pulls
    discuss     \* SpecComment: the comments stored for each review and path

vars == <<refs, commits, notes, last, failures, pc, loc, phase, discuss>>

(***************************************************************************)
(* Bounds of the model.                                                    *)
(***************************************************************************)
\* The object store holds at most this many branch and archive commits.
MaxCommits == 5
\* The object store holds at most this many notes commits.
MaxNotes == 6
\* The notes appended are the lines 1..MaxLine.
MaxLine == 2
\* At most this many calls of a run have a git command fail.
MaxFailures == 1
\* At most this many notes are appended in a run.
MaxAppends == 2

NoHash == 0

(***************************************************************************)
(* Ref names.                                                              *)
(***************************************************************************)
branchRefPrefix == <<"refs", "heads">>
notesRefPrefix == <<"refs", "notes">>
devtoolsRefPrefix == <<"refs", "devtools">>
remoteDevtoolsRefPrefix == <<"refs", "remoteDevtools">>

\* strings.HasPrefix / strings.TrimPrefix / strings.HasSuffix(_, "/*")
HasPrefix(s, p) ==
    /\ Len(p) <= Len(s)
    /\ SubSeq(s, 1, Len(p)) = p

TrimPrefix(s, p) ==
    IF HasPrefix(s, p) THEN SubSeq(s, Len(p) + 1, Len(s)) ELSE s

HasStarSuffix(pattern) ==
    /\ Len(pattern) > 1
    /\ pattern[Len(pattern)] = "*"

\* The patterns the pull and push commands pass.
notesRefPattern == <<"refs", "notes", "devtools", "*">>
archiveRefPattern == <<"refs", "devtools", "archives", "*">>

\* The refs the model's replicas use.
MasterRef == <<"refs", "heads", "master">>
ReviewRef == <<"refs", "heads", "review">>
GoneRef == <<"refs", "heads", "gone">>
ArchiveName == <<"refs", "devtools", "archives", "reviews">>
NotesNames == {<<"refs", "notes", "devtools", "reviews">>,
               <<"refs", "notes", "devtools", "discuss">>}

(***************************************************************************)
(* The repository port: the git commands the code runs.                    *)
(***************************************************************************)
\* git show-ref --verify --quiet <ref>
RefExists(rs, ref) == ref \in DOMAIN rs

\* git show -s --format=%H <ref> --   (of a ref that exists)
RefHash(rs, ref) == rs[ref]

WithRef(rs, ref, hash) ==
    [r \in DOMAIN rs \cup {ref} |-> IF r = ref THEN hash ELSE rs[r]]

\* git update-ref <ref> <new> [<old>]: with an old value the ref moves only
\* if it points to it; without one (old = NoHash) it is set unconditionally.
UpdateRefOk(rs, ref, old) ==
    old = NoHash \/ (RefExists(rs, ref) /\ rs[ref] = old)

UpdateRef(rs, ref, new, old) ==
    IF UpdateRefOk(rs, ref, old) THEN WithRef(rs, ref, new) ELSE rs

\* The commits reachable from hash h (h included) in store cs.
RECURSIVE Reach(_, _)
Reach(cs, hs) ==
    LET next == hs \cup UNION {{cs[h].parents[i] : i \in DOMAIN cs[h].parents} : h \in hs}
    IN  IF next = hs THEN hs ELSE Reach(cs, next)

Ancestors(cs, h) == IF h = NoHash THEN {} ELSE Reach(cs, {h})

\* git merge-base --is-ancestor <ancestor> <descendant>
AncestorOf(cs, ancestor, descendant) == ancestor \in Ancestors(cs, descendant)

\* git commit-tree -p <parent>... <tree>: the commit carries the current
\* time, so it is a new object; its hash is returned as Len of the store.
CommitTree(cs, parents, tree) ==
    Append(cs, [parents |-> parents, tree |-> tree])

(***************************************************************************)
(* A call returns the refs and the commit store it leaves and whether it   *)
(* returned an error.  fail names the git command of the call that fails   *)
(* ("none": every command runs).  A command run through HasRef or          *)
(* IsAncestor fails in one of two ways: git exits with a non-zero status   *)
(* (":exit", an *exec.ExitError, which the code reads as the answer "no")  *)
(* or git cannot be run (":spawn", which the code returns as an error).    *)
(***************************************************************************)
Ret(rs, cs, err) == [refs |-> rs, commits |-> cs, err |-> err]

ArchiveRefFailures ==
    {"none", "GetCommitHash(ref)", "GetCommitDetails", "GetCommitHash(archive)",
     "IsAncestor:exit", "IsAncestor:spawn", "commit-tree", "update-ref"}

mergeArchivesFailures ==
    {"none", "HasRef(remote):exit", "HasRef(remote):spawn", "GetCommitHash(remote)",
     "HasRef(archive):exit", "HasRef(archive):spawn", "GetCommitHash(archive)",
     "IsAncestor:exit", "IsAncestor:spawn", "GetCommitDetails", "commit-tree",
     "update-ref"}

\* ArchiveRef: the hash read for the archive; any error of the read counts
\* as "the archive does not exist".
ArchiveHashRead(rs, archive, fail) ==
    IF fail = "GetCommitHash(archive)" \/ ~RefExists(rs, archive)
    THEN NoHash
    ELSE RefHash(rs, archive)

\* A commit-tree of ArchiveRef that leaves the ref's commit out of the parents.
ArchiveParentsNoRef(archiveHash, refHash) ==
    IF archiveHash = NoHash THEN <<>> ELSE <<archiveHash>>

\* A commit-tree of ArchiveRef with the two parents in the other order.
ArchiveParentsSwapped(archiveHash, refHash) ==
    IF archiveHash = NoHash THEN <<refHash>> ELSE <<refHash, archiveHash>>

\* ArchiveRef: the -p arguments of commit-tree.
ArchiveParents(archiveHash, refHash) ==
    IF archiveHash = NoHash THEN <<refHash>> ELSE <<archiveHash, refHash>>

\* An ArchiveRef that never finds the ref archived.
AlreadyArchivedNever(cs, refHash, archiveHash, fail) == FALSE

\* ArchiveRef: whether the ref is found archived already.
AlreadyArchived(cs, refHash, archiveHash, fail) ==
    /\ archiveHash # NoHash
    /\ fail # "IsAncestor:exit"
    /\ AncestorOf(cs, refHash, archiveHash)

\* GitRepo.ArchiveRef(ref, archive), run with no other writer.
ArchiveRef(rs, cs, ref, archive, fail) ==
    IF fail = "GetCommitHash(ref)" \/ ~RefExists(rs, ref) THEN Ret(rs, cs, TRUE)
    ELSE IF fail = "GetCommitDetails" THEN Ret(rs, cs, TRUE)
    ELSE
    LET refHash == RefHash(rs, ref)
        refTree == cs[refHash].tree
        archiveHash == ArchiveHashRead(rs, archive, fail)
    IN  IF archiveHash # NoHash /\ fail = "IsAncestor:spawn" THEN Ret(rs, cs, TRUE)
        ELSE IF AlreadyArchived(cs, refHash, archiveHash, fail) THEN Ret(rs, cs, FALSE)
        ELSE IF fail = "commit-tree" THEN Ret(rs, cs, TRUE)
        ELSE
        LET cs2 == CommitTree(cs, ArchiveParents(archiveHash, refHash), refTree)
            newArchiveHash == Len(cs2)
        IN  IF fail = "update-ref" \/ ~UpdateRefOk(rs, archive, archiveHash)
            THEN Ret(rs, cs2, TRUE)
            ELSE Ret(UpdateRef(rs, archive, newArchiveHash, archiveHash), cs2, FALSE)

\* A commit-tree of mergeArchives that leaves the local archive out.
MergeParentsRemoteOnly(remoteHash, archiveHash) == <<remoteHash>>

\* mergeArchives: the -p arguments of commit-tree.
MergeParents(remoteHash, archiveHash) == <<remoteHash, archiveHash>>

\* mergeArchives: whether the local archive can be fast-forwarded.
CanFastForward(cs, archiveHash, remoteHash, fail) ==
    /\ fail # "IsAncestor:exit"
    /\ AncestorOf(cs, archiveHash, remoteHash)

\* GitRepo.mergeArchives(archive, remoteArchive), run with no other writer.
mergeArchives(rs, cs, archive, remoteArchive, fail) ==
    IF fail = "HasRef(remote):spawn" THEN Ret(rs, cs, TRUE)
    ELSE IF fail = "HasRef(remote):exit" \/ ~RefExists(rs, remoteArchive)
    THEN Ret(rs, cs, FALSE)
    ELSE IF fail = "GetCommitHash(remote)" THEN Ret(rs, cs, TRUE)
    ELSE IF fail = "HasRef(archive):spawn" THEN Ret(rs, cs, TRUE)
    ELSE
    LET remoteHash == RefHash(rs, remoteArchive)
    IN  IF fail = "HasRef(archive):exit" \/ ~RefExists(rs, archive)
        THEN IF fail = "update-ref"
             THEN Ret(rs, cs, TRUE)
             ELSE Ret(UpdateRef(rs, archive, remoteHash, NoHash), cs, FALSE)
        ELSE IF fail = "GetCommitHash(archive)" \/ fail = "IsAncestor:spawn"
        THEN Ret(rs, cs, TRUE)
        ELSE
        LET archiveHash == RefHash(rs, archive)
        IN  IF CanFastForward(cs, archiveHash, remoteHash, fail)
            THEN IF fail = "update-ref" \/ ~UpdateRefOk(rs, archive, archiveHash)
                 THEN Ret(rs, cs, TRUE)
                 ELSE Ret(UpdateRef(rs, archive, remoteHash, archiveHash), cs, FALSE)
            ELSE IF fail = "GetCommitDetails" \/ fail = "commit-tree"
            THEN Ret(rs, cs, TRUE)
            ELSE
            LET cs2 == CommitTree(cs, MergeParents(remoteHash, archiveHash),
                                  cs[remoteHash].tree)
                newArchiveHash == Len(cs2)
            IN  IF fail = "update-ref" \/ ~UpdateRefOk(rs, archive, archiveHash)
                THEN Ret(rs, cs2, TRUE)
                ELSE Ret(UpdateRef(rs, archive, newArchiveHash, archiveHash), cs2, FALSE)

(***************************************************************************)
(* Notes.  A notes ref points to a notes commit whose tree maps an         *)
(* annotated object to its blob, a sequence of lines; <<>> is "no note".   *)
(* The line 0 is the empty line; every other line is an annotation.        *)
(***************************************************************************)
NotedObjects == {1, 2}
NoteLines == 1..MaxLine
BlankLine == 0
EmptyTree == [o \in NotedObjects |-> <<>>]

\* The annotation lines of a blob.
LinesOf(blob) == {blob[i] : i \in DOMAIN blob} \ {BlankLine}

NotesTree(ns, hash) == IF hash = NoHash THEN EmptyTree ELSE ns[hash].tree

\* A notes append that replaces the blob instead of adding to it.
AppendedBlobReplacing(blob, note) == <<note>>

\* git notes --ref <notesRef> append -m <note> <revision>: the note is added
\* after the blob's text, an empty line between them.
AppendedBlob(blob, note) ==
    IF blob = <<>> THEN <<note>> ELSE blob \o <<BlankLine, note>>

\* GitRepo.AppendNote(notesRef, revision, note)
AppendNote(rs, ns, notesRef, revision, note) ==
    LET tip == IF RefExists(rs, notesRef) THEN RefHash(rs, notesRef) ELSE NoHash
        tree == [NotesTree(ns, tip) EXCEPT ![revision] = AppendedBlob(@, note)]
        ns2 == Append(ns, [parents |-> IF tip = NoHash THEN <<>> ELSE <<tip>>,
                           tree |-> tree])
    IN  [refs |-> WithRef(rs, notesRef, Len(ns2)), notes |-> ns2]

\* The sorted sequence of the elements of a finite set of numbers.
RECURSIVE SortedSeq(_)
SortedSeq(S) ==
    IF S = {} THEN <<>>
    ELSE LET m == CHOOSE x \in S : \A y \in S : x <= y
         IN  <<m>> \o SortedSeq(S \ {m})

\* A notes merge strategy that keeps the remote blob ("theirs").
CatSortUniqTheirs(local, remote) == remote

\* A notes merge strategy that keeps the local blob ("ours").
CatSortUniqOurs(local, remote) == local

\* The cat_sort_uniq notes merge strategy: the lines of both blobs, the empty
\* ones dropped, sorted, each once.
CatSortUniq(local, remote) == SortedSeq(LinesOf(local) \cup LinesOf(remote))

\* git merge-base: the common ancestors that are ancestors of no other one.
MergeBases(ns, a, b) ==
    LET common == Ancestors(ns, a) \cap Ancestors(ns, b)
    IN  {c \in common : \A d \in common \ {c} : c \notin Ancestors(ns, d)}

\* git notes merge, one object: the remote change is adopted when the local
\* blob is the base's, and the strategy decides when both sides changed.
MergedBlob(base, local, remote) ==
    IF remote = base THEN local
    ELSE IF local = remote THEN local
    ELSE IF local = base THEN remote
    ELSE CatSortUniq(local, remote)

\* git notes --ref <localRef> merge <remoteRef> -s cat_sort_uniq with merge
\* base `base` (NoHash: none, the empty tree): the notes store and the hash
\* the local ref is set to.
NotesMergeWith(ns, local, remote, base) ==
    IF local = NoHash THEN [notes |-> ns, hash |-> remote]
    ELSE IF remote = base THEN [notes |-> ns, hash |-> local]
    ELSE IF local = base THEN [notes |-> ns, hash |-> remote]
    ELSE
    LET b == NotesTree(ns, base)
        l == NotesTree(ns, local)
        r == NotesTree(ns, remote)
        ns2 == Append(ns, [parents |-> <<local, remote>>,
                           tree |-> [o \in NotedObjects |-> MergedBlob(b[o], l[o], r[o])]])
    IN  [notes |-> ns2, hash |-> Len(ns2)]

\* With several merge bases git notes merge uses the first it is given: any.
NotesMergeBaseChoices(ns, local, remote) ==
    IF local = NoHash \/ MergeBases(ns, local, remote) = {}
    THEN {NoHash}
    ELSE MergeBases(ns, local, remote)

(***************************************************************************)
(* Remote-tracking names and the loops over the refs of a pattern.         *)
(***************************************************************************)
getRemoteNotesRef(remote, localNotesRef) ==
    notesRefPrefix \o <<"remotes", remote>> \o TrimPrefix(localNotesRef, notesRefPrefix)

\* A local name that keeps the name of the remote.
getLocalNotesRefKeepRemote(remote, remoteNotesRef) ==
    notesRefPrefix \o TrimPrefix(remoteNotesRef, notesRefPrefix \o <<"remotes">>)

getLocalNotesRef(remote, remoteNotesRef) ==
    notesRefPrefix \o TrimPrefix(remoteNotesRef, notesRefPrefix \o <<"remotes", remote>>)

getRemoteDevtoolsRef(remote, devtoolsRefPattern) ==
    remoteDevtoolsRefPrefix \o <<remote>> \o TrimPrefix(devtoolsRefPattern, devtoolsRefPrefix)

getLocalDevtoolsRef(remote, remoteDevtoolsRef) ==
    devtoolsRefPrefix \o TrimPrefix(remoteDevtoolsRef, remoteDevtoolsRefPrefix \o <<remote>>)

\* A check of the devtools ref patterns that accepts every pattern.
UnsupportedDevtoolsRefNever(refPattern) == FALSE

\* The check FetchAndReturnNewReviewHashes makes of a devtools ref pattern.
UnsupportedDevtoolsRef(refPattern) == ~HasPrefix(refPattern, devtoolsRefPrefix)

\* getRefHashes(refPattern): the refs under the pattern's prefix (the keys of
\* the map; the hashes are read from rs).
PatternPrefix(refPattern) == SubSeq(refPattern, 1, Len(refPattern) - 1)

getRefHashes(rs, refPattern) ==
    {r \in DOMAIN rs : HasPrefix(r, PatternPrefix(refPattern))}

\* git fetch <remote> +<src>:<dst>: every ref of the remote under src is
\* written, forced, to the same relative name under dst.
FetchRefspec(rs, rsRemote, src, dst) ==
    LET from == getRefHashes(rsRemote, src)
        to(r) == PatternPrefix(dst) \o TrimPrefix(r, PatternPrefix(src))
        names == {to(r) : r \in from}
    IN  [n \in DOMAIN rs \cup names |->
            IF n \in names
            THEN rsRemote[CHOOSE r \in from : to(r) = n]
            ELSE rs[n]]

\* The fetch of FetchAndReturnNewReviewHashes: the notes refs and all of
\* refs/devtools/*.
Fetch(rs, rsRemote, remote, notesPattern) ==
    FetchRefspec(
        FetchRefspec(rs, rsRemote, notesPattern, getRemoteNotesRef(remote, notesPattern)),
        rsRemote,
        devtoolsRefPrefix \o <<"*">>,
        getRemoteDevtoolsRef(remote, devtoolsRefPrefix \o <<"*">>))

\* The loop of MergeArchives over the remote-tracking refs `todo`; it stops
\* at the first error.
RECURSIVE MergeArchivesOver(_, _, _, _, _)
MergeArchivesOver(rs, cs, remote, todo, fail) ==
    IF todo = {} THEN Ret(rs, cs, FALSE)
    ELSE LET remoteRef == CHOOSE r \in todo : TRUE
             localRef == getLocalDevtoolsRef(remote, remoteRef)
             one == mergeArchives(rs, cs, localRef, remoteRef, fail)
         IN  IF one.err THEN one
             ELSE MergeArchivesOver(one.refs, one.commits, remote, todo \ {remoteRef}, fail)

\* GitRepo.MergeArchives(remote, archiveRefPattern)
MergeArchives(rs, cs, remote, archivePattern, fail) ==
    IF ~HasStarSuffix(getRemoteDevtoolsRef(remote, archivePattern))
    THEN Ret(rs, cs, TRUE)
    ELSE MergeArchivesOver(rs, cs, remote,
             getRefHashes(rs, getRemoteDevtoolsRef(remote, archivePattern)), fail)

\* The loop of MergeNotes over the remote-tracking refs `todo`: the set of
\* the [refs, notes] it can leave, one for each choice of merge bases.
RECURSIVE MergeNotesOver(_, _, _, _)
MergeNotesOver(rs, ns, remote, todo) ==
    IF todo = {} THEN {[refs |-> rs, notes |-> ns]}
    ELSE LET remoteRef == CHOOSE r \in todo : TRUE
             localRef == getLocalNotesRef(remote, remoteRef)
             local == IF RefExists(rs, localRef) THEN RefHash(rs, localRef) ELSE NoHash
             theirs == RefHash(rs, remoteRef)
         IN  UNION {
                 LET m == NotesMergeWith(ns, local, theirs, base)
                 IN  MergeNotesOver(WithRef(rs, localRef, m.hash), m.notes, remote,
                                    todo \ {remoteRef})
                 : base \in NotesMergeBaseChoices(ns, local, theirs)}

\* GitRepo.MergeNotes(remote, notesRefPattern).  With fail = "notes merge" the
\* merges of the refs in `merged` run and the next one fails.
MergeNotes(rs, ns, remote, notesPattern, fail, merged) ==
    LET refsMap == getRefHashes(rs, getRemoteNotesRef(remote, notesPattern))
        failing == fail = "notes merge" /\ merged \subseteq refsMap /\ merged # refsMap
    IN  IF ~HasStarSuffix(getRemoteNotesRef(remote, notesPattern))
        THEN {[refs |-> rs, notes |-> ns, err |-> TRUE]}
        ELSE {[refs |-> m.refs, notes |-> m.notes, err |-> failing] :
                m \in MergeNotesOver(rs, ns, remote, IF failing THEN merged ELSE refsMap)}

PullFailures == mergeArchivesFailures \cup {"fetch", "notes merge"}

\* GitRepo.PullNotesAndArchive(remote, notesRefPattern, archiveRefPattern) on
\* the replica with refs rs, the remote's refs being rsRemote: the set of the
\* [refs, commits, notes, err] it can leave.
PullNotesAndArchive(rs, rsRemote, cs, ns, remote, notesPattern, archivePattern, fail, merged) ==
    IF \/ UnsupportedDevtoolsRef(archivePattern)
       \/ ~HasStarSuffix(getRemoteNotesRef(remote, notesPattern))
       \/ fail = "fetch"
    THEN {[refs |-> rs, commits |-> cs, notes |-> ns, err |-> TRUE]}
    ELSE
    LET fetched == Fetch(rs, rsRemote, remote, notesPattern)
        arch == MergeArchives(fetched, cs, remote, archivePattern, fail)
    IN  IF arch.err
        THEN {[refs |-> arch.refs, commits |-> arch.commits, notes |-> ns, err |-> TRUE]}
        ELSE {[refs |-> m.refs, commits |-> arch.commits, notes |-> m.notes, err |-> m.err] :
                m \in MergeNotes(arch.refs, ns, remote, notesPattern, fail, merged)}

\* A remote that takes every pushed ref, as for a forced push.
PushAcceptedForced(rs, rsRemote, cs, ns, r) == TRUE

(***************************************************************************)
(* Push.  git push <remote> <pattern>:<pattern>... without force: a ref of *)
(* the remote is created or fast-forwarded; a ref that would not be a      *)
(* fast-forward is rejected, the others are still written, and the push    *)
(* fails.                                                                  *)
(***************************************************************************)
PushAccepted(rs, rsRemote, cs, ns, r) ==
    \/ ~RefExists(rsRemote, r)
    \/ AncestorOf(IF HasPrefix(r, notesRefPrefix) THEN ns ELSE cs, rsRemote[r], rs[r])

\* A push that never returns an error.
PushFailedNever(pushed, accepted, fail) == FALSE

\* Whether git push exits with an error: it could not run or reach the remote
\* (fail = "push"), or the remote rejected a ref.
PushFailed(pushed, accepted, fail) == fail = "push" \/ accepted # pushed

\* GitRepo.Push(remote, refSpecs...), each refspec <pattern>:<pattern>: the
\* refs it leaves on the remote and whether it returned an error.
Push(rs, rsRemote, cs, ns, refSpecs, fail) ==
    LET pushed == UNION {getRefHashes(rs, pattern) : pattern \in refSpecs}
        accepted == {r \in pushed : PushAccepted(rs, rsRemote, cs, ns, r)}
    IN  [refs |-> IF fail = "push"
                  THEN rsRemote
                  ELSE [n \in DOMAIN rsRemote \cup accepted |->
                            IF n \in accepted THEN rs[n] ELSE rsRemote[n]],
         err |-> PushFailed(pushed, accepted, fail)]

\* GitRepo.PushNotes(remote, notesRefPattern)
PushNotes(rs, rsRemote, cs, ns, notesPattern, fail) ==
    Push(rs, rsRemote, cs, ns, {notesPattern}, fail)

\* GitRepo.PushNotesAndArchive(remote, notesRefPattern, archiveRefPattern)
PushNotesAndArchive(rs, rsRemote, cs, ns, notesPattern, archivePattern, fail) ==
    Push(rs, rsRemote, cs, ns, {notesPattern, archivePattern}, fail)

(***************************************************************************)
(* The state after construction: every replica is a clone of one           *)
(* repository with two commits, master and a review branch one commit      *)
(* ahead of it; no archive and no notes yet.                               *)
(***************************************************************************)
AllReplicas == {"A", "B", "C", "D"}
Replicas == {"A", "B"}

InitCommits ==
    << [parents |-> <<>>, tree |-> 1],
       [parents |-> <<1>>, tree |-> 2] >>

InitRefs == [r \in {MasterRef, ReviewRef} |-> IF r = MasterRef THEN 1 ELSE 2]

\* The commits that comments are stored on, none stored yet.
CommentedCommits == {"R1", "H"}
NoComments == [commit \in CommentedCommits |-> <<>>]

NoCall ==
    [op |-> "none", repo |-> "", ref |-> <<>>, remote |-> "", clean |-> TRUE,
     err |-> FALSE, old |-> NoHash]

\* The annotation lines of the notes ref `name` of a replica for an object.
HeldIn(rs, ns, name, o) ==
    IF RefExists(rs, name) THEN LinesOf(NotesTree(ns, RefHash(rs, name))[o]) ELSE {}

NoLines == [name \in NotesNames |-> [o \in NotedObjects |-> {}]]

Phase(name, before) == [name |-> name, before |-> before]

\* The notes an AppendNote call is given.  A note is opaque text: the lines
\* are numbered in the order in which a run first appends them, so a note is
\* a line of the store or the next new one.
UsedLines(ns) == UNION {LinesOf(ns[i].tree[o]) : i \in DOMAIN ns, o \in NotedObjects}

NextNotes(ns) == {n \in NoteLines : n <= Cardinality(UsedLines(ns)) + 1}

\* The notes commits made by AppendNote (the others are merges).
NumAppends(ns) == Cardinality({i \in DOMAIN ns : Len(ns[i].parents) < 2})

ArchiveOf(rs) == IF RefExists(rs, ArchiveName) THEN RefHash(rs, ArchiveName) ELSE NoHash

Init ==
    /\ refs = [r \in AllReplicas |-> InitRefs]
    /\ commits = InitCommits
    /\ notes = <<>>
    /\ last = NoCall
    /\ failures = 0
    /\ discuss = NoComments
    /\ pc = <<>>
    /\ loc = <<>>
    /\ phase = Phase("free", NoLines)

(***************************************************************************)
(* The operations, each a whole call on one replica.  In SpecArchive last  *)
(* records the call, whether every git command of it ran (clean), the      *)
(* error returned and the archive hash the replica had before the call,    *)
(* and the calls with a failing git command are counted; git commands fail *)
(* in calls on replica A only, the other replicas are its peers.           *)
(***************************************************************************)
Call(op, repo, ref, remote, fail, err) ==
    [op |-> op, repo |-> repo, ref |-> ref, remote |-> remote, clean |-> fail = "none",
     err |-> err, old |-> ArchiveOf(refs[repo])]

Failing(repo, fail) ==
    /\ fail # "none" => failures < MaxFailures /\ repo = "A"
    /\ failures' = IF fail = "none" THEN failures ELSE failures + 1

DoArchiveRef(repo, ref, fail) ==
    LET r == ArchiveRef(refs[repo], commits, ref, ArchiveName, fail)
    IN  /\ Len(r.commits) <= MaxCommits
        /\ refs' = [refs EXCEPT ![repo] = r.refs]
        /\ commits' = r.commits
        /\ notes' = notes
        /\ last' = Call("ArchiveRef", repo, ref, "", fail, r.err)

DoPull(repo, remote, fail, merged, logged) ==
    \E r \in PullNotesAndArchive(refs[repo], refs[remote], commits, notes, remote,
                                 notesRefPattern, archiveRefPattern, fail, merged) :
        /\ Len(r.commits) <= MaxCommits
        /\ Len(r.notes) <= MaxNotes
        /\ refs' = [refs EXCEPT ![repo] = r.refs]
        /\ commits' = r.commits
        /\ notes' = r.notes
        /\ last' = IF logged
                   THEN Call("PullNotesAndArchive", repo, <<>>, remote, fail, r.err)
                   ELSE last

DoPush(repo, remote, fail, logged) ==
    LET r == PushNotesAndArchive(refs[repo], refs[remote], commits, notes,
                                 notesRefPattern, archiveRefPattern, fail)
    IN  /\ refs' = [refs EXCEPT ![remote] = r.refs]
        /\ UNCHANGED <<commits, notes>>
        /\ last' = IF logged
                   THEN Call("PushNotesAndArchive", repo, <<>>, remote, fail, r.err)
                   ELSE last

DoAppendNote(repo, notesRef, revision, note) ==
    LET r == AppendNote(refs[repo], notes, notesRef, revision, note)
    IN  /\ NumAppends(notes) < MaxAppends
        /\ Len(r.notes) <= MaxNotes
        /\ refs' = [refs EXCEPT ![repo] = r.refs]
        /\ notes' = r.notes
        /\ commits' = commits

(***************************************************************************)
(* SpecArchive: one writer at a time archives branches on two replicas,    *)
(* which pull from and push to each other; a git command of a call may     *)
(* fail.                                                                   *)
(***************************************************************************)
ArchivedRefs == {MasterRef, ReviewRef, GoneRef}

ArchiveStep ==
    /\ \E repo \in Replicas, ref \in ArchivedRefs, fail \in ArchiveRefFailures :
           Failing(repo, fail) /\ DoArchiveRef(repo, ref, fail)
    /\ UNCHANGED <<pc, discuss, loc, phase>>

PullStep ==
    /\ \E repo \in Replicas, remote \in Replicas, fail \in PullFailures,
          merged \in SUBSET NotesNames :
           /\ remote # repo
           /\ fail # "notes merge" => merged = {}
           /\ Failing(repo, fail)
           /\ DoPull(repo, remote, fail,
                     {getRemoteNotesRef(remote, r) : r \in merged}, TRUE)
    /\ UNCHANGED <<pc, discuss, loc, phase>>

PushStep ==
    /\ \E repo \in Replicas, remote \in Replicas, fail \in {"none", "push"} :
           /\ remote # repo
           /\ Failing(repo, fail)
           /\ DoPush(repo, remote, fail, TRUE)
    /\ UNCHANGED <<pc, discuss, loc, phase>>

NextArchive == ArchiveStep \/ PullStep \/ PushStep

SpecArchive == Init /\ [][NextArchive]_vars

(***************************************************************************)
(* Claims about the archive refs, checked under SpecArchive.               *)
(***************************************************************************)
\* The remote-tracking archive ref of the replica's last pull.
TrackingArchive(remote) == getRemoteDevtoolsRef(remote, ArchiveName)

\* C1: after ArchiveRef(ref, archive) returns without error, the commit that
\* ref points to is an ancestor of (or equal to) the tip of the archive ref,
\* whether the archive ref existed before the call or not (and whichever git
\* command of the call failed).
C1_ArchivedIsAncestor ==
    (last.op = "ArchiveRef" /\ ~last.err) =>
        /\ RefExists(refs[last.repo], ArchiveName)
        /\ AncestorOf(commits, RefHash(refs[last.repo], last.ref),
                      RefHash(refs[last.repo], ArchiveName))

\* An ArchiveRef call that created the archive ref.
C1_Witness ==
    /\ last.op = "ArchiveRef"
    /\ ~last.err
    /\ last.clean
    /\ last.old = NoHash
    /\ RefExists(refs[last.repo], ArchiveName)

\* C2: no step (an ArchiveRef call, a pull, with or without a failing git
\* command) makes an archive ref lose a commit that was an ancestor of its tip.
C2_ArchiveKeepsHistory ==
    [][\A repo \in Replicas :
        RefExists(refs[repo], ArchiveName) =>
            /\ RefExists(refs'[repo], ArchiveName)
            /\ Ancestors(commits, RefHash(refs[repo], ArchiveName))
                  \subseteq Ancestors(commits', RefHash(refs'[repo], ArchiveName))]_vars

C9_NoOpWhenRemoteIsAncestor ==
    [][(/\ last'.op = "PullNotesAndArchive"
        /\ last'.clean
        /\ RefExists(refs[last'.repo], ArchiveName)
        /\ RefExists(refs'[last'.repo], TrackingArchive(last'.remote))
        /\ AncestorOf(commits, RefHash(refs'[last'.repo], TrackingArchive(last'.remote)),
                      RefHash(refs[last'.repo], ArchiveName)))
       => /\ ArchiveOf(refs'[last'.repo]) = ArchiveOf(refs[last'.repo])
          /\ commits' = commits]_vars

Writers == {"w1", "w2"}
ConcRepo == "A"
ConcRemote == "B"

Idle(op, err) ==
    [op |-> op, ref |-> <<>>, refHash |-> NoHash, remoteHash |-> NoHash,
     archiveHash |-> NoHash, new |-> NoHash, err |-> err]

InitConc ==
    /\ commits = Append(InitCommits, [parents |-> <<2>>, tree |-> 2])
    /\ refs = [r \in AllReplicas |->
                 IF r = ConcRepo
                 THEN WithRef(InitRefs, TrackingArchive(ConcRemote), 3)
                 ELSE IF r = ConcRemote THEN WithRef(InitRefs, ArchiveName, 3)
                 ELSE InitRefs]
    /\ notes = <<>>
    /\ last = NoCall
    /\ failures = 0
    /\ discuss = NoComments
    /\ pc = [w \in Writers |-> "idle"]
    /\ loc = [w \in Writers |-> Idle("none", FALSE)]
    /\ phase = Phase("free", NoLines)

ConcFrame == UNCHANGED <<notes, last, failures, phase, discuss>>

Return(w, err) ==
    /\ pc' = [pc EXCEPT ![w] = "idle"]
    /\ loc' = [loc EXCEPT ![w] = Idle(loc[w].op, err)]

\* ArchiveRef: GetCommitHash(ref) and GetCommitDetails(ref).
ArReadRef(w) ==
    /\ pc[w] = "idle"
    /\ \E ref \in {MasterRef, ReviewRef} :
           loc' = [loc EXCEPT ![w] = [Idle("ArchiveRef", FALSE) EXCEPT
                                         !.ref = ref,
                                         !.refHash = RefHash(refs[ConcRepo], ref)]]
    /\ pc' = [pc EXCEPT ![w] = "ArReadArchive"]
    /\ UNCHANGED <<refs, commits>>
    /\ ConcFrame

\* ArchiveRef: GetCommitHash(archive).
ArReadArchive(w) ==
    /\ pc[w] = "ArReadArchive"
    /\ loc' = [loc EXCEPT ![w].archiveHash = ArchiveHashRead(refs[ConcRepo], ArchiveName, "none")]
    /\ pc' = [pc EXCEPT ![w] = "ArCommit"]
    /\ UNCHANGED <<refs, commits>>
    /\ ConcFrame

\* ArchiveRef: IsAncestor(refHash, archiveHash), then commit-tree.
ArCommit(w) ==
    /\ pc[w] = "ArCommit"
    /\ IF AlreadyArchived(commits, loc[w].refHash, loc[w].archiveHash, "none")
       THEN /\ Return(w, FALSE)
            /\ UNCHANGED commits
       ELSE /\ Len(commits) < MaxCommits
            /\ commits' = CommitTree(commits,
                              ArchiveParents(loc[w].archiveHash, loc[w].refHash),
                              commits[loc[w].refHash].tree)
            /\ loc' = [loc EXCEPT ![w].new = Len(commits')]
            /\ pc' = [pc EXCEPT ![w] = "ArUpdate"]
    /\ UNCHANGED refs
    /\ ConcFrame

\* ArchiveRef and mergeArchives: the closing update-ref, with the hash read
\* for the archive as the old value when there is one.
ConcUpdateRef(w, at) ==
    /\ pc[w] = at
    /\ refs' = [refs EXCEPT ![ConcRepo] =
                   UpdateRef(@, ArchiveName, loc[w].new, loc[w].archiveHash)]
    /\ Return(w, ~UpdateRefOk(refs[ConcRepo], ArchiveName, loc[w].archiveHash))
    /\ UNCHANGED commits
    /\ ConcFrame

ArUpdate(w) == ConcUpdateRef(w, "ArUpdate")

\* mergeArchives: HasRef(remoteArchive) and GetCommitHash(remoteArchive).
MaReadRemote(w) ==
    /\ pc[w] = "idle"
    /\ RefExists(refs[ConcRepo], TrackingArchive(ConcRemote))
    /\ loc' = [loc EXCEPT ![w] = [Idle("mergeArchives", FALSE) EXCEPT
                  !.remoteHash = RefHash(refs[ConcRepo], TrackingArchive(ConcRemote))]]
    /\ pc' = [pc EXCEPT ![w] = "MaHasLocal"]
    /\ UNCHANGED <<refs, commits>>
    /\ ConcFrame

\* mergeArchives: HasRef(archive).
MaHasLocal(w) ==
    /\ pc[w] = "MaHasLocal"
    /\ pc' = [pc EXCEPT ![w] = IF RefExists(refs[ConcRepo], ArchiveName)
                               THEN "MaReadLocal" ELSE "MaCreate"]
    /\ UNCHANGED <<refs, commits, loc>>
    /\ ConcFrame

\* mergeArchives: update-ref archive remoteHash, of an archive found missing.
MaCreate(w) ==
    /\ pc[w] = "MaCreate"
    /\ refs' = [refs EXCEPT ![ConcRepo] =
                   UpdateRef(@, ArchiveName, loc[w].remoteHash, NoHash)]
    /\ Return(w, FALSE)
    /\ UNCHANGED commits
    /\ ConcFrame

\* mergeArchives: GetCommitHash(archive).
MaReadLocal(w) ==
    /\ pc[w] = "MaReadLocal"
    /\ loc' = [loc EXCEPT ![w].archiveHash = RefHash(refs[ConcRepo], ArchiveName)]
    /\ pc' = [pc EXCEPT ![w] = "MaCommit"]
    /\ UNCHANGED <<refs, commits>>
    /\ ConcFrame

\* mergeArchives: IsAncestor(archiveHash, remoteHash), then, unless the
\* archive can be fast-forwarded, GetCommitDetails and commit-tree.
MaCommit(w) ==
    /\ pc[w] = "MaCommit"
    /\ IF CanFastForward(commits, loc[w].archiveHash, loc[w].remoteHash, "none")
       THEN /\ loc' = [loc EXCEPT ![w].new = loc[w].remoteHash]
            /\ UNCHANGED commits
       ELSE /\ Len(commits) < MaxCommits
            /\ commits' = CommitTree(commits,
                              MergeParents(loc[w].remoteHash, loc[w].archiveHash),
                              commits[loc[w].remoteHash].tree)
            /\ loc' = [loc EXCEPT ![w].new = Len(commits')]
    /\ pc' = [pc EXCEPT ![w] = "MaUpdate"]
    /\ UNCHANGED refs
    /\ ConcFrame

MaUpdate(w) == ConcUpdateRef(w, "MaUpdate")

NextConc ==
    \E w \in Writers :
        \/ ArReadRef(w)
        \/ ArReadArchive(w)
        \/ ArCommit(w)
        \/ ArUpdate(w)
        \/ MaReadRemote(w)
        \/ MaHasLocal(w)
        \/ MaCreate(w)
        \/ MaReadLocal(w)
        \/ MaCommit(w)
        \/ MaUpdate(w)

SpecConc == InitConc /\ [][NextConc]_vars

\* C3: a writer's update of the archive ref succeeds only if the ref still
\* has the value the writer read (NoHash: it read that the ref does not
\* exist); otherwise the update fails and the ref keeps its value.
C3_NoLostUpdate ==
    [][\A w \in Writers :
        (/\ pc[w] \in {"ArUpdate", "MaCreate", "MaUpdate"}
         /\ pc'[w] = "idle"
         /\ ArchiveOf(refs[ConcRepo]) # loc[w].archiveHash)
        => (loc'[w].err /\ refs' = refs)]_vars

(***************************************************************************)
(* SpecNotes: notes are appended on two replicas, which pull from and push *)
(* to each other; the fetch or a notes merge of a pull may fail, and so    *)
(* may a push.                                                             *)
(***************************************************************************)
AppendStep ==
    /\ \E repo \in Replicas, notesRef \in NotesNames, revision \in NotedObjects,
          note \in NextNotes(notes) :
           DoAppendNote(repo, notesRef, revision, note)
    /\ UNCHANGED <<last, failures, pc, discuss, loc, phase>>

\* No archive ref exists in a run of SpecNotes: the git commands of a pull that
\* can fail are the fetch and the notes merges.
NotesPullStep ==
    /\ \E repo \in Replicas, remote \in Replicas, fail \in {"none", "fetch", "notes merge"},
          merged \in SUBSET NotesNames :
           /\ remote # repo
           /\ fail # "notes merge" => merged = {}
           /\ DoPull(repo, remote, fail,
                     {getRemoteNotesRef(remote, r) : r \in merged}, FALSE)
    /\ UNCHANGED <<failures, pc, discuss, loc, phase>>

NotesPushStep ==
    /\ \E repo \in Replicas, remote \in Replicas, fail \in {"none", "push"} :
           /\ remote # repo
           /\ DoPush(repo, remote, fail, FALSE)
    /\ UNCHANGED <<failures, pc, discuss, loc, phase>>

NextSpecNotes == AppendStep \/ NotesPullStep \/ NotesPushStep

SpecNotes == Init /\ [][NextSpecNotes]_vars

\* C6: no step (AppendNote, a pull with its MergeNotes, a push; with or without
\* a failing git command) removes an annotation line from a local notes ref:
\* for every replica, notes ref and annotated object the set of lines held
\* after the step contains the set held before it.
C6_LinesOnlyGrow ==
    [][\A repo \in Replicas, name \in NotesNames, o \in NotedObjects :
        HeldIn(refs[repo], notes, name, o)
            \subseteq HeldIn(refs'[repo], notes', name, o)]_vars

\* A pull merged two notes histories that both had changed, and an object
\* holds a line of each.
C6_Witness ==
    \E repo \in Replicas, name \in NotesNames, o \in NotedObjects :
        /\ RefExists(refs[repo], name)
        /\ Len(notes[RefHash(refs[repo], name)].parents) = 2
        /\ Cardinality(HeldIn(refs[repo], notes, name, o)) >= 2

(***************************************************************************)
(* SpecSync: after a setup in which notes are appended on A and B and the  *)
(* two pull from each other, one of them pulls from the other and then the *)
(* other pulls from it, with no other write.  phase.before is the union of *)
(* the lines the two held before the first of these pulls.                 *)
(***************************************************************************)
UnionHeld(S) ==
    [name \in NotesNames |-> [o \in NotedObjects |->
        UNION {HeldIn(refs[r], notes, name, o) : r \in S}]]

SetupAppend(S) ==
    /\ phase.name = "setup"
    /\ \E repo \in S, notesRef \in NotesNames, revision \in NotedObjects,
          note \in NextNotes(notes) :
           DoAppendNote(repo, notesRef, revision, note)
    /\ UNCHANGED <<last, failures, pc, discuss, loc, phase>>

SetupPull(S, T) ==
    /\ phase.name = "setup"
    /\ \E repo \in S, remote \in T :
           /\ remote # repo
           /\ DoPull(repo, remote, "none", {}, FALSE)
    /\ UNCHANGED <<failures, pc, discuss, loc, phase>>

InitSync ==
    /\ refs = [r \in AllReplicas |-> InitRefs]
    /\ commits = InitCommits
    /\ notes = <<>>
    /\ last = NoCall
    /\ failures = 0
    /\ discuss = NoComments
    /\ pc = <<>>
    /\ loc = <<>>
    /\ phase = Phase("setup", NoLines)

SyncAppend == SetupAppend(Replicas)

SyncSetupPull == SetupPull(Replicas, Replicas)

\* The first pull of the exchange: A from B, or B from A.
SyncFirstPull ==
    /\ phase.name = "setup"
    /\ \E repo \in Replicas, remote \in Replicas :
           /\ remote # repo
           /\ DoPull(repo, remote, "none", {}, TRUE)
           /\ phase' = Phase(remote, UnionHeld(Replicas))
    /\ UNCHANGED <<failures, pc, discuss, loc>>

\* The second pull: the replica that was pulled from pulls from the other.
SyncSecondPull ==
    /\ phase.name \in Replicas
    /\ \E remote \in Replicas :
           /\ remote # phase.name
           /\ DoPull(phase.name, remote, "none", {}, TRUE)
    /\ phase' = Phase("done", phase.before)
    /\ UNCHANGED <<failures, pc, discuss, loc>>

NextSync == SyncAppend \/ SyncSetupPull \/ SyncFirstPull \/ SyncSecondPull

SpecSync == InitSync /\ [][NextSync]_vars

\* C4: after A pulled from B and B pulled from A, in either order and with no
\* other write, both hold, for every notes ref and annotated object, the same
\* set of annotation lines, and it is the union of the sets they held before.
C4_BidirectionalPullUnion ==
    phase.name = "done" =>
        \A name \in NotesNames, o \in NotedObjects :
            /\ HeldIn(refs["A"], notes, name, o) = HeldIn(refs["B"], notes, name, o)
            /\ HeldIn(refs["A"], notes, name, o) = phase.before[name][o]

\* An exchange between replicas that each held a line the other did not.
C4_Witness ==
    /\ phase.name = "done"
    /\ \E name \in NotesNames, o \in NotedObjects :
        /\ Cardinality(phase.before[name][o]) >= 2
        /\ RefExists(refs["A"], name)
        /\ Len(notes[RefHash(refs["A"], name)].parents) = 2
        /\ HeldIn(refs["B"], notes, name, o) = phase.before[name][o]

(***************************************************************************)
(* SpecOrder: after a setup on the replicas A, B and C, replica D is made  *)
(* a copy of A; A pulls from B and then from C, D pulls from C and then    *)
(* from B.                                                                 *)
(***************************************************************************)
Puller == "A"
Copy == "D"
RemoteX == "B"
RemoteY == "C"
OrderReplicas == {Puller, RemoteX, RemoteY}

OrderAppend == SetupAppend(OrderReplicas)

\* In the setup the remotes pull from the puller.
OrderSetupPull == SetupPull({RemoteX, RemoteY}, {Puller})

OrderCopy ==
    /\ phase.name = "setup"
    /\ refs' = [refs EXCEPT ![Copy] = refs[Puller]]
    /\ phase' = Phase("copied", UnionHeld({Puller}))
    /\ UNCHANGED <<commits, notes, last, failures, pc, discuss, loc>>

OrderPull(at, repo, remote, then) ==
    /\ phase.name = at
    /\ DoPull(repo, remote, "none", {}, TRUE)
    /\ phase' = Phase(then, phase.before)
    /\ UNCHANGED <<failures, pc, discuss, loc>>

PullXThenY1 == OrderPull("copied", Puller, RemoteX, "x")

PullXThenY2 == OrderPull("x", Puller, RemoteY, "xy")

PullYThenX1 == OrderPull("xy", Copy, RemoteY, "y")

PullYThenX2 == OrderPull("y", Copy, RemoteX, "both")

NextOrder ==
    \/ OrderAppend
    \/ OrderSetupPull
    \/ OrderCopy
    \/ PullXThenY1
    \/ PullXThenY2
    \/ PullYThenX1
    \/ PullYThenX2

SpecOrder == InitSync /\ [][NextOrder]_vars

\* C5: the set of annotation lines a replica holds for every notes ref and
\* annotated object after pulling from X and then from Y equals the set it
\* holds after pulling from Y and then from X.
C5_PullOrderIndependent ==
    phase.name = "both" =>
        \A name \in NotesNames, o \in NotedObjects :
            HeldIn(refs[Puller], notes, name, o) = HeldIn(refs[Copy], notes, name, o)

\* The two orders made different notes commits, of an object for which X and
\* Y each had a line that the puller did not hold.
C5_Witness ==
    /\ phase.name = "both"
    /\ \E name \in NotesNames, o \in NotedObjects :
        /\ RefExists(refs[Puller], name) /\ RefExists(refs[Copy], name)
        /\ RefHash(refs[Puller], name) # RefHash(refs[Copy], name)
        /\ HeldIn(refs[RemoteX], notes, name, o) \ phase.before[name][o] # {}
        /\ HeldIn(refs[RemoteY], notes, name, o) \ phase.before[name][o] # {}
        /\ HeldIn(refs[RemoteX], notes, name, o) # HeldIn(refs[RemoteY], notes, name, o)

(***************************************************************************)
(* Claims about a failed compare-and-swap, checked under SpecConc.         *)
(***************************************************************************)
\* The closing update-ref of writer w is given an old value that the archive
\* ref no longer has.
CasConflict(w) ==
    /\ pc[w] \in {"ArUpdate", "MaUpdate"}
    /\ loc[w].archiveHash # NoHash
    /\ ArchiveOf(refs[ConcRepo]) # loc[w].archiveHash

\* C11: when the compare-and-swap update of the archive ref fails because the
\* ref moved, the call does not return the error at once: it reads the ref
\* again and retries the update (every update-ref of a call is its first).
C11_ConflictIsRetried ==
    [][\A w \in Writers :
        (CasConflict(w) /\ pc'[w] # pc[w]) => ~(pc'[w] = "idle" /\ loc'[w].err)]_vars

(***************************************************************************)
(* FetchAndReturnNewReviewHashes.  A path of a notes tree is named by the  *)
(* annotated object; the output of a git command is the sequence of its    *)
(* lines, and the empty string is the line EmptyString.                    *)
(***************************************************************************)
EmptyString == 0

\* git ls-tree -r --name-only <hash>: the paths of the notes tree.
LsTreeNames(ns, hash) ==
    SortedSeq({o \in NotedObjects : NotesTree(ns, hash)[o] # <<>>})

\* git diff --name-only <prior> <hash>: the paths whose blob differs.
DiffNames(ns, prior, hash) ==
    SortedSeq({o \in NotedObjects : NotesTree(ns, prior)[o] # NotesTree(ns, hash)[o]})

\* strings.Split(strings.Replace(notes, "/", "", -1), "\n"): the lines of the
\* output; an empty output splits into one empty string.
SplitLines(output) == IF output = <<>> THEN <<EmptyString>> ELSE output

\* The loop over updatedRefHashes: the keys of updatedReviewSet.
UpdatedReviewSet(ns, priorRefs, updatedRefs, refsMap) ==
    UNION {
        LET hash == RefHash(updatedRefs, ref)
            ok == RefExists(priorRefs, ref)
            reviews == SplitLines(IF ~ok THEN LsTreeNames(ns, hash)
                                  ELSE DiffNames(ns, RefHash(priorRefs, ref), hash))
        IN  IF ok /\ RefHash(priorRefs, ref) = hash
            THEN {}
            ELSE {reviews[i] : i \in DOMAIN reviews}
        : ref \in refsMap}

\* GitRepo.FetchAndReturnNewReviewHashes(remote, notesRefPattern,
\* archiveRefPattern): the refs it leaves, the reviews returned and whether
\* it returned an error.
FetchAndReturnNewReviewHashes(rs, rsRemote, ns, remote, notesPattern, archivePattern, fail) ==
    IF \/ UnsupportedDevtoolsRef(archivePattern)
       \/ ~HasStarSuffix(getRemoteNotesRef(remote, notesPattern))
       \/ fail = "fetch"
    THEN [refs |-> rs, returned |-> {}, err |-> TRUE]
    ELSE LET fetched == Fetch(rs, rsRemote, remote, notesPattern)
             refsMap == getRefHashes(fetched, getRemoteNotesRef(remote, notesPattern))
         IN  [refs |-> fetched,
              returned |-> UpdatedReviewSet(ns, rs, fetched, refsMap),
              err |-> FALSE]

(***************************************************************************)
(* SpecFetch: notes are appended on two replicas, which pull from each     *)
(* other and fetch from each other; loc holds the refs the fetching        *)
(* replica had before its fetch and what the fetch returned.               *)
(***************************************************************************)
NoFetch == [op |-> "none", repo |-> "", remote |-> "", prior |-> <<>>, returned |-> {},
            err |-> FALSE]

InitFetch ==
    /\ refs = [r \in AllReplicas |-> InitRefs]
    /\ commits = InitCommits
    /\ notes = <<>>
    /\ last = NoCall
    /\ failures = 0
    /\ discuss = NoComments
    /\ pc = <<>>
    /\ loc = NoFetch
    /\ phase = Phase("free", NoLines)

FetchAppend ==
    /\ \E repo \in Replicas, notesRef \in NotesNames, revision \in NotedObjects,
          note \in NextNotes(notes) :
           DoAppendNote(repo, notesRef, revision, note)
    /\ loc' = NoFetch
    /\ UNCHANGED <<last, failures, pc, discuss, phase>>

FetchPull ==
    /\ \E repo \in Replicas, remote \in Replicas :
           /\ remote # repo
           /\ DoPull(repo, remote, "none", {}, FALSE)
    /\ loc' = NoFetch
    /\ UNCHANGED <<failures, pc, discuss, phase>>

FetchStep ==
    /\ \E repo \in Replicas, remote \in Replicas, fail \in {"none", "fetch"} :
           /\ remote # repo
           /\ LET r == FetchAndReturnNewReviewHashes(refs[repo], refs[remote], notes,
                           remote, notesRefPattern, archiveRefPattern, fail)
              IN  /\ refs' = [refs EXCEPT ![repo] = r.refs]
                  /\ loc' = [op |-> "FetchAndReturnNewReviewHashes", repo |-> repo,
                             remote |-> remote, prior |-> refs[repo],
                             returned |-> r.returned, err |-> r.err]
    /\ UNCHANGED <<commits, notes, last, failures, pc, discuss, phase>>

NextFetch == FetchAppend \/ FetchPull \/ FetchStep

SpecFetch == InitFetch /\ [][NextFetch]_vars

\* The notes-tree paths that differ between the version of a remote-tracking
\* notes ref before the fetch (none: the empty tree) and its version now.
PathsChanged(prior, ref) ==
    LET before == IF RefExists(prior, ref) THEN RefHash(prior, ref) ELSE NoHash
    IN  {o \in NotedObjects :
            NotesTree(notes, before)[o] # NotesTree(notes, RefHash(refs[loc.repo], ref))[o]}

\* C12: FetchAndReturnNewReviewHashes returns exactly the names of the
\* notes-tree paths that differ, for each remote-tracking notes ref whose hash
\* after the fetch differs from its hash before it (every path for a ref that
\* did not exist); the result is empty when no path differs.
C12_ReturnsChangedPaths ==
    (loc.op = "FetchAndReturnNewReviewHashes" /\ ~loc.err) =>
        loc.returned =
            UNION {PathsChanged(loc.prior, ref) :
                     ref \in getRefHashes(refs[loc.repo],
                                 getRemoteNotesRef(loc.remote, notesRefPattern))}

(***************************************************************************)
(* SpecPush: notes are appended and master is archived on two replicas,    *)
(* which push to each other with PushNotes, PushNotesAndArchive and Push;  *)
(* a push may fail to run, and the remote rejects a ref that would not be  *)
(* fast-forwarded.                                                         *)
(***************************************************************************)
PushOps == {"PushNotes", "PushNotesAndArchive", "Push"}

\* The refspecs of a push; Push is called with the archive refs.
PushRefSpecs(op) ==
    IF op = "PushNotes" THEN {notesRefPattern}
    ELSE IF op = "PushNotesAndArchive" THEN {notesRefPattern, archiveRefPattern}
    ELSE {archiveRefPattern}

PushedRefs(rs, op) == UNION {getRefHashes(rs, pattern) : pattern \in PushRefSpecs(op)}

PushAppend ==
    /\ \E repo \in Replicas, notesRef \in NotesNames, revision \in NotedObjects,
          note \in NextNotes(notes) :
           DoAppendNote(repo, notesRef, revision, note)
    /\ last' = NoCall
    /\ UNCHANGED <<failures, pc, discuss, loc, phase>>

PushArchive ==
    /\ \E repo \in Replicas : DoArchiveRef(repo, MasterRef, "none")
    /\ UNCHANGED <<failures, pc, discuss, loc, phase>>

PushOpStep ==
    /\ \E op \in PushOps, repo \in Replicas, remote \in Replicas, fail \in {"none", "push"} :
           /\ remote # repo
           /\ LET r == Push(refs[repo], refs[remote], commits, notes, PushRefSpecs(op), fail)
              IN  /\ refs' = [refs EXCEPT ![remote] = r.refs]
                  /\ last' = Call(op, repo, <<>>, remote, fail, r.err)
    /\ UNCHANGED <<commits, notes, failures, pc, discuss, loc, phase>>

NextPush == PushAppend \/ PushArchive \/ PushOpStep

SpecPush == Init /\ [][NextPush]_vars

\* C13: a push (PushNotes, PushNotesAndArchive, Push), whether it succeeds or
\* fails, leaves every ref of the pushing replica unchanged, its notes refs
\* and archive refs among them; a push that could not run or that left a ref
\* of the remote behind returns an error.
C13_PushKeepsLocalRefs ==
    [][(last'.op \in PushOps /\ (last' # last \/ refs' # refs)) =>
        /\ refs'[last'.repo] = refs[last'.repo]
        /\ commits' = commits /\ notes' = notes
        /\ ~last'.clean => last'.err
        /\ (\E r \in PushedRefs(refs[last'.repo], last'.op) :
               \/ ~RefExists(refs'[last'.remote], r)
               \/ RefHash(refs'[last'.remote], r) # RefHash(refs[last'.repo], r))
              => last'.err]_vars

\* A push of notes and archive that the remote rejected: it returned an
\* error, and the pushing replica has a notes ref and an archive ref.
C13_Witness ==
    /\ last.op = "PushNotesAndArchive"
    /\ last.clean
    /\ last.err
    /\ RefExists(refs[last.repo], ArchiveName)
    /\ \E name \in NotesNames :
        /\ RefExists(refs[last.repo], name)
        /\ RefExists(refs[last.remote], name)
        /\ RefHash(refs[last.repo], name) # RefHash(refs[last.remote], name)

\* ------------------------------------------------------------------
\* The comment and accept commands.
\*
\* Comments are stored per commit, in the order they were appended.  A
\* review is named by its commit; "R1" is the only review, "H" is the
\* commit HEAD names and carries no review, "R9" names nothing.
\* ------------------------------------------------------------------

UserEmail == "user@example.com"
SigningKey == "key"
NoParent == <<>>
NoReview == "nil"
Reviews == {"R1"}
ReviewHead == [r \in Reviews |-> "R1head"]

\* comment.New: a comment by the author with the description, everything
\* else unset.
New(author, description) ==
    [author |-> author, description |-> description, resolved |-> "unset",
     parent |-> NoParent, commit |-> "", path |-> "", signature |-> ""]

\* The hash of a comment is taken over its whole content, so two comments
\* have the same hash exactly when they are the same record.
CommentHash(c) == <<"hash", c>>

\* gpg.Sign places the signature made with the key in the comment.
Sign(key, c) == [c EXCEPT !.signature = key]

\* The elements of a sequence.
Range(seq) == {seq[i] : i \in 1..Len(seq)}

AllComments(store) == UNION {Range(store[commit]) : commit \in DOMAIN store}

\* The thread forest of a set of comments: a comment whose parent is the
\* hash of another comment of the set is a child of it, every other
\* comment is a root.
RECURSIVE ThreadOf(_, _)
ThreadOf(c, all) ==
    [Hash |-> CommentHash(c),
     Children |-> {ThreadOf(d, all) : d \in {x \in all : x.parent = CommentHash(c)}}]

Threads(all) ==
    {ThreadOf(c, all) :
        c \in {x \in all : \A y \in all : x.parent # CommentHash(y)}}

\* review.Get and review.GetCurrent: the review of the commit, or nil.
Get(id) == IF id \in Reviews THEN id ELSE NoReview

\* r.Comments: the threads of the comments stored for the review.
ReviewComments(store, r) ==
    IF r \in DOMAIN store THEN Threads(Range(store[r])) ELSE {}

\* review.GetDetachedComments: the threads of the comments on the path,
\* whichever commit they are stored on.
GetDetachedComments(store, path) ==
    Threads({c \in AllComments(store) : c.path = path})

\* r.AddComment and review.AddDetachedComment: one more comment stored on
\* the commit.
AddComment(store, commit, c) ==
    IF commit \in DOMAIN store
    THEN [store EXCEPT ![commit] = Append(@, c)]
    ELSE store

\* ResolveRefCommit: the commit the ref names.
ResolveRefCommit(ref, fail) ==
    [err |-> fail = "ResolveRefCommit" \/ ref \notin {"HEAD", "R1", "H"},
     commit |-> IF ref = "R1" THEN "R1" ELSE "H"]

\* A command that returns the error without having stored anything.
Rejected(store) == [store |-> store, err |-> TRUE]

\* The mutually exclusive flags are never seen as such.
FlagsConflictNever(lgtm, nmw) == FALSE

FlagsConflict(lgtm, nmw) == lgtm /\ nmw

\* Every hash is taken for the hash of a comment of the threads.
commentHashExistsAlways(hashToFind, threads) == TRUE

RECURSIVE commentHashExists(_, _)
commentHashExists(hashToFind, threads) ==
    \E thread \in threads :
        \/ thread.Hash = hashToFind
        \/ commentHashExists(hashToFind, thread.Children)

\* input.FromFile and input.LaunchEditor return the text of the file and
\* the text left in the editor.
FromFile(in) == in.fileText
LaunchEditor(in) == in.editorText

\* validateArgs: the error, and the message the flags hold afterwards.
validateArgs(in, threads) ==
    LET fromFile == in.messageFile # "" /\ in.message = ""
        afterFile == IF fromFile THEN FromFile(in) ELSE in.message
        fromEditor == in.messageFile = "" /\ afterFile = ""
        afterEditor == IF fromEditor THEN LaunchEditor(in) ELSE afterFile
    IN  IF FlagsConflict(in.lgtm, in.nmw)
        THEN [err |-> TRUE, message |-> in.message]
        ELSE IF in.parent # NoParent /\ ~commentHashExists(in.parent, threads)
        THEN [err |-> TRUE, message |-> in.message]
        ELSE IF fromFile /\ in.fail = "FromFile"
        THEN [err |-> TRUE, message |-> in.message]
        ELSE IF fromEditor /\ in.fail = "LaunchEditor"
        THEN [err |-> TRUE, message |-> afterFile]
        ELSE [err |-> in.messageFile = "" /\ afterEditor = "",
              message |-> afterEditor]

\* A failure to sign goes unnoticed and leaves the comment unsigned.
SignedIgnoringErrors(c, sign, fail) ==
    [err |-> FALSE,
     comment |-> IF sign /\ fail \notin {"GetUserSigningKey", "gpg.Sign"}
                 THEN Sign(SigningKey, c) ELSE c]

\* The signing both commands end with: the signing key is read from the
\* configuration and the comment signed with it, when -S is given.
Signed(c, sign, fail) ==
    IF ~sign THEN [err |-> FALSE, comment |-> c]
    ELSE IF fail = "GetUserSigningKey" THEN [err |-> TRUE, comment |-> c]
    ELSE IF fail = "gpg.Sign" THEN [err |-> TRUE, comment |-> c]
    ELSE [err |-> FALSE, comment |-> Sign(SigningKey, c)]

\* buildCommentFromFlags: the comment the flags describe, on the commit.
buildCommentFromFlags(in, message, commentedUponCommit) ==
    LET c == [New(UserEmail, message) EXCEPT
                 !.commit = commentedUponCommit,
                 !.path = in.file,
                 !.parent = in.parent,
                 !.resolved = IF in.lgtm \/ in.nmw
                              THEN (IF in.lgtm THEN "true" ELSE "false")
                              ELSE "unset"]
    IN  IF in.fail \in {"Location.Check", "GetUserEmail", "GetDate"}
        THEN [err |-> TRUE, comment |-> c]
        ELSE Signed(c, in.sign, in.fail)

\* More than one positional argument is accepted.
TooManyArgsNever(args) == FALSE

TooManyArgs(args) == Len(args) > 1

\* The review the arguments name: the one given, else the current one.
LoadReview(in) ==
    IF Len(in.args) = 1 THEN Get(in.args[1]) ELSE Get(in.current)

\* A lookup that found no review is taken for a review.
LoadFailedNever(r, fail) == FALSE

LoadFailed(r, fail) == fail = "load" \/ r = NoReview

\* commentOnReview adds a comment to the review.
commentOnReview(store, in) ==
    LET r == LoadReview(in)
        valid == validateArgs(in, ReviewComments(store, r))
        head == IF r \in Reviews THEN ReviewHead[r] ELSE ""
        built == buildCommentFromFlags(in, valid.message, head)
    IN  IF TooManyArgs(in.args) THEN Rejected(store)
        ELSE IF LoadFailed(r, in.fail) THEN Rejected(store)
        ELSE IF valid.err THEN Rejected(store)
        ELSE IF in.fail = "GetHeadCommit" THEN Rejected(store)
        ELSE IF built.err THEN Rejected(store)
        ELSE IF in.fail = "AddComment" THEN Rejected(store)
        ELSE [store |-> AddComment(store, r, built.comment), err |-> FALSE]

\* The positional ref is never looked at.
commentedUponRefHead(args) == "HEAD"

\* The ref a detached comment is about: the one given, else HEAD.
commentedUponRef(args) == IF Len(args) = 1 THEN args[1] ELSE "HEAD"

\* commentOnPath adds a comment on a file without a review.
commentOnPath(store, in) ==
    LET resolved == ResolveRefCommit(commentedUponRef(in.args), in.fail)
        valid == validateArgs(in, GetDetachedComments(store, in.file))
        built == buildCommentFromFlags(in, valid.message, resolved.commit)
    IN  IF in.file = "" THEN Rejected(store)
        ELSE IF TooManyArgs(in.args) THEN Rejected(store)
        ELSE IF resolved.err THEN Rejected(store)
        ELSE IF in.fail = "GetDetachedComments" THEN Rejected(store)
        ELSE IF valid.err THEN Rejected(store)
        ELSE IF built.err THEN Rejected(store)
        ELSE IF in.fail = "AddComment" THEN Rejected(store)
        ELSE [store |-> AddComment(store, resolved.commit, built.comment),
              err |-> FALSE]

\* The comment subcommand.
commentCmd(store, in) ==
    IF in.detached THEN commentOnPath(store, in) ELSE commentOnReview(store, in)

\* acceptReview adds an LGTM comment to the review.
acceptReview(store, in) ==
    LET r == LoadReview(in)
        acceptedCommit == IF r \in Reviews THEN ReviewHead[r] ELSE ""
        fromFile == in.messageFile # "" /\ in.message = ""
        message == IF fromFile THEN FromFile(in) ELSE in.message
        c == [New(UserEmail, message) EXCEPT
                 !.commit = acceptedCommit, !.resolved = "true"]
        signed == Signed(c, in.sign, in.fail)
    IN  IF TooManyArgs(in.args) THEN Rejected(store)
        ELSE IF LoadFailed(r, in.fail) THEN Rejected(store)
        ELSE IF in.fail = "GetHeadCommit" THEN Rejected(store)
        ELSE IF in.fail = "GetUserEmail" THEN Rejected(store)
        ELSE IF fromFile /\ in.fail = "FromFile" THEN Rejected(store)
        ELSE IF in.fail = "GetDate" THEN Rejected(store)
        ELSE IF signed.err THEN Rejected(store)
        ELSE IF in.fail = "AddComment" THEN Rejected(store)
        ELSE [store |-> AddComment(store, r, signed.comment), err |-> FALSE]

\* ------------------------------------------------------------------
\* SpecComment: one run of the comment or of the accept command, on a
\* repository with or without stored comments.
\* ------------------------------------------------------------------

RootComment == [New("other@example.com", "text") EXCEPT !.commit = "R1head"]
ReplyComment ==
    [New(UserEmail, "text") EXCEPT
        !.commit = "R1head", !.parent = CommentHash(RootComment)]
ReplyToReply ==
    [New("other@example.com", "text") EXCEPT
        !.commit = "R1head", !.parent = CommentHash(ReplyComment)]
DetachedComment ==
    [New("other@example.com", "text") EXCEPT !.commit = "H", !.path = "P"]
StrayComment == New("nobody@example.com", "text")

ThreadedComments ==
    [commit \in CommentedCommits |->
        IF commit = "R1" THEN <<RootComment, ReplyComment, ReplyToReply>>
        ELSE <<DetachedComment>>]

CommentStores == {NoComments, ThreadedComments}

\* The values of -p: none, the hash of a stored comment, the hash of none.
ParentFlags ==
    {NoParent, CommentHash(RootComment), CommentHash(ReplyToReply),
     CommentHash(DetachedComment), CommentHash(StrayComment)}

ArgLists == {<<>>, <<"R1">>, <<"H">>, <<"R9">>, <<"R1", "R1">>}

FailPoints ==
    {"none", "load", "GetHeadCommit", "ResolveRefCommit", "GetDetachedComments",
     "FromFile", "LaunchEditor", "Location.Check", "GetUserEmail", "GetDate",
     "GetUserSigningKey", "gpg.Sign", "AddComment"}

\* The failing call is one the invocation can make, and what is not read
\* (the file without -F, the editor with a message, the current review with
\* a review named) is left empty.
Consistent(in) ==
    /\ in.messageFile = "" => in.fileText = ""
    /\ (in.messageFile # "" \/ in.message # "") => in.editorText = ""
    /\ (Len(in.args) = 1 \/ in.detached) => in.current = ""
    /\ in.fail \in {"load", "GetHeadCommit"} => ~in.detached
    /\ in.fail \in {"ResolveRefCommit", "GetDetachedComments"} => in.detached
    /\ in.fail = "FromFile" => in.messageFile # "" /\ in.message = ""
    /\ in.fail = "LaunchEditor" =>
          in.cmd = "comment" /\ in.messageFile = "" /\ in.message = ""
    /\ in.fail \in {"GetUserSigningKey", "gpg.Sign"} => in.sign
    /\ in.fail = "Location.Check" => in.cmd = "comment"

CommentFlags ==
    {in \in [cmd : {"comment"}, args : ArgLists, current : {"", "R1"},
             detached : BOOLEAN, file : {"", "P"},
             lgtm : BOOLEAN, nmw : BOOLEAN, parent : ParentFlags,
             message : {"", "text"}, messageFile : {"", "file"},
             fileText : {"", "text"}, editorText : {"", "text"},
             sign : BOOLEAN, fail : FailPoints] : Consistent(in)}

\* accept has no flags but -m, -F and -S.
AcceptFlags ==
    {in \in [cmd : {"accept"}, args : ArgLists, current : {"", "R1"},
             detached : {FALSE}, file : {""},
             lgtm : {FALSE}, nmw : {FALSE}, parent : {NoParent},
             message : {"", "text"}, messageFile : {"", "file"},
             fileText : {"", "text"}, editorText : {""},
             sign : BOOLEAN, fail : FailPoints] : Consistent(in)}

NoFlags ==
    [cmd |-> "none", args |-> <<>>, current |-> "", detached |-> FALSE,
     file |-> "", lgtm |-> FALSE, nmw |-> FALSE, parent |-> NoParent,
     message |-> "", messageFile |-> "", fileText |-> "", editorText |-> "",
     sign |-> FALSE, fail |-> "none"]

InitComment ==
    /\ refs = [r \in AllReplicas |-> InitRefs]
    /\ commits = InitCommits
    /\ notes = <<>>
    /\ last = [op |-> "none", err |-> FALSE, before |-> NoComments]
    /\ failures = 0
    /\ discuss \in CommentStores
    /\ pc = "ready"
    /\ loc = NoFlags
    /\ phase = Phase("free", NoLines)

\* The command runs with the flags `in`, and exits.
RunCmd(in, result) ==
    /\ pc' = "exited"
    /\ loc' = in
    /\ discuss' = result.store
    /\ last' = [op |-> in.cmd, err |-> result.err, before |-> discuss]
    /\ UNCHANGED <<refs, commits, notes, failures, phase>>

CommentStep ==
    /\ pc = "ready"
    /\ \E in \in CommentFlags : RunCmd(in, commentCmd(discuss, in))

AcceptStep ==
    /\ pc = "ready"
    /\ \E in \in AcceptFlags : RunCmd(in, acceptReview(discuss, in))

NextComment == CommentStep \/ AcceptStep

SpecComment == InitComment /\ [][NextComment]_vars

\* What the command that ran has appended, and the message it ended with.
Exited(cmd) == pc = "exited" /\ loc.cmd = cmd
NothingAppended == discuss = last.before

\* C14: the comment command with both -lgtm and -nmw set returns an error
\* and appends no comment, for a review comment and for a detached comment.
C14_LgtmAndNmwRejected ==
    (Exited("comment") /\ loc.lgtm /\ loc.nmw) => (last.err /\ NothingAppended)

\* A detached comment with both flags and nothing else wrong was refused.
C14_Witness ==
    /\ Exited("comment") /\ loc.lgtm /\ loc.nmw
    /\ loc.detached /\ loc.file = "P" /\ loc.args = <<>>
    /\ loc.message = "text" /\ loc.parent = NoParent /\ loc.fail = "none"
    /\ last.err /\ NothingAppended

\* The comments the command that ran could reply to: those of the review
\* commented on, or, for a detached comment, those on the file.
Repliable ==
    IF loc.detached
    THEN {c \in AllComments(last.before) : c.path = loc.file}
    ELSE IF LoadReview(loc) \in DOMAIN last.before
    THEN Range(last.before[LoadReview(loc)])
    ELSE {}

\* C15: the comment command with a non-empty -p appends a comment only if
\* the hash is that of a comment, at any depth of the threads, of the review
\* commented on (of the file, for a detached comment); otherwise it returns
\* an error and appends nothing.
C15_ParentMustExist ==
    (/\ Exited("comment")
     /\ loc.parent # NoParent
     /\ \A c \in Repliable : CommentHash(c) # loc.parent)
        => (last.err /\ NothingAppended)

\* A reply to the deepest comment of the review's thread was appended.
C15_Witness ==
    /\ Exited("comment")
    /\ ~loc.detached
    /\ loc.parent = CommentHash(ReplyToReply)
    /\ ~last.err
    /\ discuss["R1"] = Append(last.before["R1"], discuss["R1"][Len(discuss["R1"])])
    /\ discuss["R1"][Len(discuss["R1"])].parent = CommentHash(ReplyToReply)

\* The message the command that ran has obtained: that of -m, else the text
\* of the -F file, else the text left in the editor.
ObtainedMessage ==
    IF loc.message # "" THEN loc.message
    ELSE IF loc.messageFile # "" THEN loc.fileText
    ELSE loc.editorText

\* C16: whenever the message obtained for the comment command is empty,
\* from -m, from the -F file or from the editor, the command returns an
\* error and appends no comment.
C16_EmptyMessageRejected ==
    (Exited("comment") /\ ObtainedMessage = "") => (last.err /\ NothingAppended)

\* The comment stored last on the commit.
LastOn(commit) == discuss[commit][Len(discuss[commit])]

\* C17: a successful accept appends exactly one comment to the matched
\* review, with resolved = true, the review's head commit as location
\* commit, no parent and the configured user email as author; accept with
\* more than one positional argument appends nothing.
C17_AcceptAppendsOneLgtm ==
    /\ (Exited("accept") /\ ~last.err) =>
          LET r == LoadReview(loc)
          IN  /\ r \in Reviews
              /\ discuss = [last.before EXCEPT ![r] = Append(@, LastOn(r))]
              /\ LastOn(r).resolved = "true"
              /\ LastOn(r).commit = ReviewHead[r]
              /\ LastOn(r).parent = NoParent
              /\ LastOn(r).author = UserEmail
    /\ (Exited("accept") /\ Len(loc.args) > 1) => NothingAppended

\* An accept of the current review, which has comments, went through.
C17_Witness ==
    /\ Exited("accept") /\ ~last.err
    /\ loc.args = <<>> /\ loc.current = "R1"
    /\ last.before = ThreadedComments
    /\ Len(discuss["R1"]) = Len(last.before["R1"]) + 1
    /\ LastOn("R1").resolved = "true"

\* C18: when -S is given to accept or to comment and reading the signing
\* key or making the signature fails, the command returns the error and no
\* comment is appended.
C18_SigningFailureIsFatal ==
    (/\ pc = "exited"
     /\ loc.sign
     /\ loc.fail \in {"GetUserSigningKey", "gpg.Sign"})
        => (last.err /\ NothingAppended)

\* An accept of a review, with nothing wrong but the signature, failed.
C18_Witness ==
    /\ Exited("accept") /\ loc.sign /\ loc.fail = "gpg.Sign"
    /\ loc.args = <<"R1">> /\ loc.message = "text"
    /\ last.err /\ NothingAppended

\* The command that ran was to find its review, and there was none to find
\* or the lookup failed.
ReviewNotLoaded ==
    /\ pc = "exited"
    /\ ~loc.detached
    /\ Len(loc.args) <= 1
    /\ \/ loc.fail = "load"
       \/ Len(loc.args) = 1 /\ loc.args[1] \notin Reviews
       \/ loc.args = <<>> /\ loc.current \notin Reviews

\* C19: accept and comment return an error and append nothing when the
\* lookup of the review fails or finds none: for an unknown review id, and,
\* with no id, when there is no current review.
C19_NoReviewIsAnError == ReviewNotLoaded => (last.err /\ NothingAppended)

\* A comment with nothing wrong but the unknown review id was refused.
C19_Witness ==
    /\ Exited("comment") /\ ReviewNotLoaded
    /\ loc.args = <<"R9">> /\ loc.fail = "none"
    /\ loc.message = "text" /\ loc.parent = NoParent /\ ~loc.lgtm /\ ~loc.nmw
    /\ last.before = ThreadedComments
    /\ last.err /\ NothingAppended

\* ------------------------------------------------------------------
\* SpecWeb: the web server answers requests for the review page.
\*
\* A string is the sequence of the code points of its characters.
\* ------------------------------------------------------------------

maxHashLength == 40
StatusOK == 200
StatusBadRequest == 400
StatusInternalServerError == 500
NoStatus == 0
NumBranches == 2

\* The revision of the only review, "ab1".
RevisionOf == [r \in Reviews |-> <<97, 98, 49>>]

checkStringLooksLikeHash(s) ==
    \/ Len(s) > maxHashLength
    \/ \E i \in 1..Len(s) :
          (s[i] < 97 \/ s[i] > 102) /\ (s[i] < 48 \/ s[i] > 57)

\* The number the decimal digits spell.
RECURSIVE DecimalValue(_)
DecimalValue(s) ==
    IF s = <<>> THEN 0
    ELSE 10 * DecimalValue(SubSeq(s, 1, Len(s) - 1)) + (s[Len(s)] - 48)

RECURSIVE StripZeros(_)
StripZeros(s) == IF s # <<>> /\ s[1] = 48 THEN StripZeros(Tail(s)) ELSE s

\* The digits of the largest 32-bit unsigned number, 4294967295.
MaxUint32Digits == <<52, 50, 57, 52, 57, 54, 55, 50, 57, 53>>

\* The digits spell a number above the largest 32-bit unsigned number.
ExceedsUint32(s) ==
    LET t == StripZeros(s)
        n == Len(MaxUint32Digits)
    IN  \/ Len(t) > n
        \/ /\ Len(t) = n
           /\ \E i \in 1..n :
                 /\ t[i] > MaxUint32Digits[i]
                 /\ \A j \in 1..(i - 1) : t[j] = MaxUint32Digits[j]

\* strconv.ParseUint(s, 10, 32).  A number of ten digits is held as the
\* smallest of them, which is above any number of branches.
ParseUint(s) ==
    LET syntax == s = <<>> \/ \E i \in 1..Len(s) : s[i] < 48 \/ s[i] > 57
        range == ~syntax /\ ExceedsUint32(s)
        t == StripZeros(s)
    IN  [err |-> syntax \/ range,
         value |-> IF syntax \/ range THEN 0
                   ELSE IF Len(t) = Len(MaxUint32Digits) THEN 10^9
                   ELSE DecimalValue(t)]

\* review.Get: the review of the revision, or nil.
GetByRevision(reviewID) ==
    IF \E r \in Reviews : RevisionOf[r] = reviewID
    THEN CHOOSE r \in Reviews : RevisionOf[r] = reviewID
    ELSE NoReview

\* WriteReviewTemplate: "ok" when the page is written, "err" when an error
\* is returned, "panic" when the nil review is dereferenced.
WriteReviewTemplate(reviewID, fail) ==
    IF fail = "review.Get" THEN "err"
    ELSE IF GetByRevision(reviewID) = NoReview THEN "panic"
    ELSE IF fail \in {"GetCommitDetails", "GetCommitMessage", "ParsedDiff1",
                      "ServeTemplate"}
    THEN "err"
    ELSE "ok"

\* What the client gets: the status written, or none when the handler
\* panicked and the server closed the connection.
Response(code) == [op |-> "ServeReviewTemplate", code |-> code, crashed |-> FALSE]
Crash == [op |-> "ServeReviewTemplate", code |-> NoStatus, crashed |-> TRUE]

ServeReviewTemplate(req) ==
    LET branch == ParseUint(req.branch)
        written == WriteReviewTemplate(req.review, req.fail)
    IN  IF req.fail = "Update" THEN Response(StatusInternalServerError)
        ELSE IF req.branch = <<>> THEN Response(StatusBadRequest)
        ELSE IF branch.err \/ NumBranches <= branch.value
        THEN Response(StatusBadRequest)
        ELSE IF req.review = <<>> THEN Response(StatusBadRequest)
        ELSE IF checkStringLooksLikeHash(req.review) THEN Response(StatusBadRequest)
        ELSE IF written = "panic" THEN Crash
        ELSE IF written = "err" THEN Response(StatusInternalServerError)
        ELSE Response(StatusOK)

\* The branch parameters: none, "0", "1", "01", "2", "7", "x", "-1",
\* "4294967295" and "4294967296".
BranchParams ==
    {<<>>, <<48>>, <<49>>, <<48, 49>>, <<50>>, <<55>>, <<120>>, <<45, 49>>,
     MaxUint32Digits, <<52, 50, 57, 52, 57, 54, 55, 50, 57, 54>>}

\* The review parameters: none, "ab1", "ab2", "c0ffee", "xyz", "AB1", and
\* forty and forty-one times "a".
ReviewParams ==
    {<<>>, <<97, 98, 49>>, <<97, 98, 50>>, <<99, 48, 102, 102, 101, 101>>,
     <<120, 121, 122>>, <<65, 66, 49>>,
     [i \in 1..maxHashLength |-> 97], [i \in 1..(maxHashLength + 1) |-> 97]}

WebFailPoints ==
    {"none", "Update", "review.Get", "GetCommitDetails", "GetCommitMessage",
     "ParsedDiff1", "ServeTemplate"}

Requests == [branch : BranchParams, review : ReviewParams, fail : WebFailPoints]

InitWeb ==
    /\ refs = [r \in AllReplicas |-> InitRefs]
    /\ commits = InitCommits
    /\ notes = <<>>
    /\ last = [op |-> "none", code |-> NoStatus, crashed |-> FALSE]
    /\ failures = 0
    /\ discuss = NoComments
    /\ pc = "listening"
    /\ loc = <<>>
    /\ phase = Phase("free", NoLines)

\* The server handles a request; a panic of the handler is recovered and
\* the server goes on listening.
ServeStep ==
    /\ pc = "listening"
    /\ \E req \in Requests :
          /\ loc' = req
          /\ last' = ServeReviewTemplate(req)
    /\ UNCHANGED <<refs, commits, notes, failures, pc, discuss, phase>>

NextWeb == ServeStep

SpecWeb == InitWeb /\ [][NextWeb]_vars

\* The request served last named an existing branch and had a well-formed
\* review hash that is the revision of no review.
MissingReviewRequested ==
    /\ last.op = "ServeReviewTemplate"
    /\ loc.fail = "none"
    /\ loc.branch \in {<<48>>, <<49>>, <<48, 49>>}
    /\ loc.review # <<>>
    /\ ~checkStringLooksLikeHash(loc.review)
    /\ \A r \in Reviews : RevisionOf[r] # loc.review

\* C20: a request for the review page with a well-formed hash that matches
\* no review gets an HTTP error response: WriteReviewTemplate returns an
\* error and the handler does not crash.
C20_MissingReviewIsHttpError ==
    MissingReviewRequested =>
        (/\ ~last.crashed
         /\ last.code >= StatusBadRequest
         /\ WriteReviewTemplate(loc.review, loc.fail) = "err")

\* The commit a ref names in the repository the commands run on.
CommitNamed(ref) == IF ref = "R1" THEN "R1" ELSE "H"

\* C21: a detached comment without -f returns an error and appends nothing;
\* with -f it is appended on the commit the single positional ref resolves
\* to, or on the commit HEAD resolves to when no ref is given; more than one
\* positional argument is an error.
C21_DetachedCommentTarget ==
    (Exited("comment") /\ loc.detached) =>
        /\ loc.file = "" => (last.err /\ NothingAppended)
        /\ Len(loc.args) > 1 => (last.err /\ NothingAppended)
        /\ ~last.err =>
              LET target == CommitNamed(IF loc.args = <<>> THEN "HEAD"
                                        ELSE loc.args[1])
              IN  /\ discuss[target] # <<>>
                  /\ discuss = [last.before EXCEPT
                                   ![target] = Append(@, LastOn(target))]
                  /\ LastOn(target).commit = target
                  /\ LastOn(target).path = loc.file

\* A detached comment on the file P was appended on the commit the
\* positional ref names, which is not the one HEAD names.
C21_Witness ==
    /\ Exited("comment") /\ loc.detached /\ ~last.err
    /\ loc.file = "P" /\ loc.args = <<"R1">>
    /\ last.before = ThreadedComments
    /\ discuss["R1"] = Append(last.before["R1"], LastOn("R1"))
    /\ LastOn("R1").commit = "R1"
    /\ discuss["H"] = last.before["H"]

\* ------------------------------------------------------------------
\* SpecRefs: the refs of a repository are set with SetRef and the commits
\* of its refs are read; its state hash is read along with that of a second
\* repository, whose refs are any.
\* ------------------------------------------------------------------

\* A history with a merge: 2 and 3 are children of 1, 4 merges them.
RefsCommits ==
    << [parents |-> <<>>, tree |-> 1],
       [parents |-> <<1>>, tree |-> 2],
       [parents |-> <<1>>, tree |-> 3],
       [parents |-> <<2, 3>>, tree |-> 4] >>

\* The names of the refs, in the order git sorts them.
RefOrder == <<ArchiveName, MasterRef, ReviewRef>>
RefNames == {RefOrder[i] : i \in DOMAIN RefOrder}
RefHashes == {2, 4}
RefMaps == UNION {[names -> RefHashes] : names \in SUBSET RefNames}

\* git show-ref prints the refs without their hashes.
ShowRefNamesOnly(rs) ==
    LET listed == SelectSeq(RefOrder, LAMBDA r : RefExists(rs, r))
    IN  [i \in DOMAIN listed |-> <<listed[i]>>]

\* git show-ref: a line "<hash> <name>" for every ref, sorted by name.
ShowRef(rs) ==
    LET listed == SelectSeq(RefOrder, LAMBDA r : RefExists(rs, r))
    IN  [i \in DOMAIN listed |-> <<RefHash(rs, listed[i]), listed[i]>>]

\* sha1.Sum, in hexadecimal: texts that differ have hashes that differ.
Sha1Hex(text) == <<"sha1", text>>

\* GetRepoStateHash: git show-ref exits with an error, and prints nothing,
\* when it cannot run or the repository has no ref.
GetRepoStateHash(rs, fail) ==
    LET err == fail = "show-ref" \/ DOMAIN rs = {}
    IN  [value |-> Sha1Hex(IF err THEN <<>> ELSE ShowRef(rs)), err |-> err]

\* SetRef(ref, newCommitHash, previousCommitHash)
SetRef(rs, ref, newCommitHash, previousCommitHash, fail) ==
    IF fail = "update-ref"
    THEN [refs |-> rs, err |-> TRUE]
    ELSE [refs |-> UpdateRef(rs, ref, newCommitHash, previousCommitHash),
          err |-> ~UpdateRefOk(rs, ref, previousCommitHash)]

\* bytes.Split(stdout, "\n") of lines that each end with a newline: the
\* lines, and the empty text after the last newline.
SplitByteLines(lines) == lines \o <<EmptyString>>

\* ListCommits: git rev-list --reverse <ref>, nothing when it fails.
ListCommits(rs, cs, ref, fail) ==
    IF fail = "rev-list" \/ ~RefExists(rs, ref)
    THEN <<>>
    ELSE SplitByteLines(SortedSeq(Ancestors(cs, RefHash(rs, ref))))

NoStateHashes == [op |-> "none"]

InitRefsSpec ==
    /\ refs \in [Replicas -> RefMaps]
    /\ commits = RefsCommits
    /\ notes = <<>>
    /\ last = [op |-> "none"]
    /\ failures = 0
    /\ discuss = NoComments
    /\ pc = <<>>
    /\ loc = NoStateHashes
    /\ phase = Phase("free", NoLines)

SetRefStep ==
    /\ \E repo \in {ConcRepo}, ref \in RefNames, newCommitHash \in RefHashes,
          previousCommitHash \in RefHashes \cup {NoHash},
          fail \in {"none", "update-ref"} :
           LET r == SetRef(refs[repo], ref, newCommitHash, previousCommitHash, fail)
           IN  /\ refs' = [refs EXCEPT ![repo] = r.refs]
               /\ last' = [op |-> "SetRef", repo |-> repo, ref |-> ref,
                           new |-> newCommitHash, prev |-> previousCommitHash,
                           clean |-> fail = "none", err |-> r.err,
                           before |-> refs[repo]]
    /\ loc' = NoStateHashes
    /\ UNCHANGED <<commits, notes, failures, pc, discuss, phase>>

\* The state hash of both repositories is read.
StateHashStep ==
    /\ \E fail \in [Replicas -> {"none", "show-ref"}] :
           loc' = [op |-> "GetRepoStateHash",
                   hash |-> [r \in Replicas |-> GetRepoStateHash(refs[r], fail[r])]]
    /\ last' = [op |-> "none"]
    /\ UNCHANGED <<refs, commits, notes, failures, pc, discuss, phase>>

ListCommitsStep ==
    /\ \E repo \in {ConcRepo}, ref \in RefNames, fail \in {"none", "rev-list"} :
           last' = [op |-> "ListCommits", repo |-> repo, ref |-> ref,
                    clean |-> fail = "none",
                    list |-> ListCommits(refs[repo], commits, ref, fail)]
    /\ loc' = NoStateHashes
    /\ UNCHANGED <<refs, commits, notes, failures, pc, discuss, phase>>

NextRefs == SetRefStep \/ StateHashStep \/ ListCommitsStep

SpecRefs == InitRefsSpec /\ [][NextRefs]_vars

\* C22: GetRepoStateHash returns the same value in two repository states
\* exactly when the two have the same refs pointing at the same hashes.
C22_StateHashTellsRefsApart ==
    (/\ loc.op = "GetRepoStateHash"
     /\ \A r \in Replicas : ~loc.hash[r].err)
        => ((loc.hash["A"].value = loc.hash["B"].value) <=> (refs["A"] = refs["B"]))

\* The state hashes of two repositories that differ in the hash of one ref
\* only were read.
C22_Witness ==
    /\ loc.op = "GetRepoStateHash"
    /\ \A r \in Replicas : ~loc.hash[r].err
    /\ DOMAIN refs["A"] = RefNames /\ DOMAIN refs["B"] = RefNames
    /\ refs["A"][MasterRef] # refs["B"][MasterRef]
    /\ \A r \in RefNames \ {MasterRef} : refs["A"][r] = refs["B"][r]
    /\ loc.hash["A"].value # loc.hash["B"].value

\* The ref of the SetRef call pointed at previousCommitHash before the call;
\* an empty previousCommitHash stands for a ref that did not exist.
PointedAtPrevious ==
    IF last.prev = NoHash
    THEN ~RefExists(last.before, last.ref)
    ELSE RefExists(last.before, last.ref) /\ RefHash(last.before, last.ref) = last.prev

\* C24: SetRef(ref, newCommitHash, previousCommitHash) moves ref to
\* newCommitHash if and only if ref points to previousCommitHash, whatever
\* previousCommitHash is; otherwise ref is unchanged and an error returned.
C24_SetRefIsCompareAndSwap ==
    (last.op = "SetRef" /\ last.clean) =>
        IF PointedAtPrevious
        THEN ~last.err /\ refs[last.repo] = WithRef(last.before, last.ref, last.new)
        ELSE last.err /\ refs[last.repo] = last.before

\* C25: ListCommits(ref) returns exactly the commits reachable from ref,
\* each once, oldest first, and nothing else; for a ref that does not exist
\* it returns an empty list.
C25_ListCommitsExact ==
    (last.op = "ListCommits" /\ last.clean) =>
        IF RefExists(refs[last.repo], last.ref)
        THEN /\ {last.list[i] : i \in DOMAIN last.list}
                    = Ancestors(commits, RefHash(refs[last.repo], last.ref))
             /\ \A i, j \in DOMAIN last.list :
                    i < j => last.list[i] < last.list[j]
        ELSE last.list = <<>>

\* ------------------------------------------------------------------
\* SpecAllNotes: notes are appended and pulled, and read in one batch and
\* commit by commit.
\* ------------------------------------------------------------------

\* The tip of a notes ref, NoHash when the ref does not exist.
NotesTip(rs, notesRef) ==
    IF RefExists(rs, notesRef) THEN RefHash(rs, notesRef) ELSE NoHash

\* strings.TrimSpace of a text, by lines: the blank lines at its start and
\* at its end are dropped, and the newline that ends it.
RECURSIVE TrimSpace(_)
TrimSpace(lines) ==
    IF lines = <<>> THEN lines
    ELSE IF Head(lines) = BlankLine THEN TrimSpace(Tail(lines))
    ELSE IF lines[Len(lines)] = BlankLine
    THEN TrimSpace(SubSeq(lines, 1, Len(lines) - 1))
    ELSE lines

\* GetNotes: git notes show of the revision, trimmed and split at the
\* newlines; nothing when the command fails (there are no notes).
GetNotes(rs, ns, notesRef, revision) ==
    LET blob == NotesTree(ns, NotesTip(rs, notesRef))[revision]
    IN  IF blob = <<>> THEN <<>>
        ELSE SplitLines(TrimSpace(blob))

\* ListNotedRevisions: the annotated objects of git notes list that
\* git cat-file -t knows as commits.
ListNotedRevisions(rs, cs, ns, notesRef) ==
    SelectSeq(LsTreeNames(ns, NotesTip(rs, notesRef)), LAMBDA o : o \in DOMAIN cs)

\* GetAllNotes: for every annotated object that is a commit, the bytes of
\* its notes blob split at the newlines.
GetAllNotes(rs, cs, ns, notesRef, fail) ==
    LET noted == LsTreeNames(ns, NotesTip(rs, notesRef))
        isCommit == {noted[i] : i \in DOMAIN noted} \cap DOMAIN cs
    IN  [err |-> fail # "none",
         notes |-> IF fail # "none" THEN <<>>
                   ELSE [o \in isCommit |->
                            SplitByteLines(NotesTree(ns, NotesTip(rs, notesRef))[o])]]

AllNotesStep ==
    /\ \E repo \in Replicas, notesRef \in NotesNames,
          fail \in {"none", "notes list", "cat-file"} :
           LET all == GetAllNotes(refs[repo], commits, notes, notesRef, fail)
               revisions == ListNotedRevisions(refs[repo], commits, notes, notesRef)
           IN  loc' = [op |-> "GetAllNotes", repo |-> repo, ref |-> notesRef,
                       err |-> all.err, all |-> all.notes,
                       revisions |-> revisions,
                       each |-> [i \in DOMAIN revisions |->
                                    GetNotes(refs[repo], notes, notesRef, revisions[i])]]
    /\ UNCHANGED <<refs, commits, notes, last, failures, pc, discuss, phase>>

NextAllNotes == FetchAppend \/ FetchPull \/ AllNotesStep

SpecAllNotes == InitFetch /\ [][NextAllNotes]_vars

\* C23: GetAllNotes(notesRef) has for keys exactly the commits that
\* ListNotedRevisions(notesRef) returns, and for each of them the list of
\* notes that GetNotes(notesRef, commit) returns.
C23_AllNotesIsGetNotesPerCommit ==
    (loc.op = "GetAllNotes" /\ ~loc.err) =>
        /\ DOMAIN loc.all = {loc.revisions[i] : i \in DOMAIN loc.revisions}
        /\ \A i \in DOMAIN loc.revisions :
               loc.all[loc.revisions[i]] = loc.each[i]

\* ------------------------------------------------------------------
\* SpecPullSteps: PullNotesAndArchive call by call.  Notes are appended and
\* branches archived while no pull is under way.
\* ------------------------------------------------------------------

\* An archive pattern outside refs/devtools/.
HeadsPattern == <<"refs", "heads", "*">>

\* The notes ref that notes are appended to.
StepsNotesRef == <<"refs", "notes", "devtools", "reviews">>

\* One commit, which master points to.
StepsCommits == << [parents |-> <<>>, tree |-> 1] >>
StepsRefs == [r \in {MasterRef} |-> 1]

\* The position of a pull: the calls it has made, what it was given, what the
\* repository held when it began, and how the pull before it ended (again:
\* it ended without error and nothing was written since; retry: its fetch
\* failed).
NoPull ==
    [at |-> "idle", steps |-> <<>>, repo |-> "", remote |-> "",
     pattern |-> archiveRefPattern, fail |-> "none", err |-> FALSE,
     before |-> <<>>, ncommits |-> 0, nnotes |-> 0,
     again |-> FALSE, retry |-> FALSE]

InitPullSteps ==
    /\ refs = [r \in AllReplicas |-> StepsRefs]
    /\ commits = StepsCommits
    /\ notes = <<>>
    /\ last = NoCall
    /\ failures = 0
    /\ discuss = NoComments
    /\ pc = NoPull
    /\ loc = NoFetch
    /\ phase = Phase("free", NoLines)

PullDone == pc.at = "idle" /\ Len(pc.steps) = 3 /\ ~pc.err
FetchFailed == pc.at = "idle" /\ pc.steps = <<"fetch">> /\ pc.err

StepsAppend ==
    /\ pc.at = "idle"
    /\ \E repo \in Replicas, note \in NextNotes(notes) :
           DoAppendNote(repo, StepsNotesRef, 1, note)
    /\ pc' = NoPull
    /\ UNCHANGED <<last, failures, discuss, loc, phase>>

StepsArchive ==
    /\ pc.at = "idle"
    /\ \E repo \in Replicas :
           LET r == ArchiveRef(refs[repo], commits, MasterRef, ArchiveName, "none")
           IN  /\ Len(r.commits) <= MaxCommits
               /\ refs' = [refs EXCEPT ![repo] = r.refs]
               /\ commits' = r.commits
    /\ pc' = NoPull
    /\ UNCHANGED <<notes, last, failures, discuss, loc, phase>>

\* PullNotesAndArchive is called and runs FetchAndReturnNewReviewHashes.
PullFetchStep ==
    /\ pc.at = "idle"
    /\ \E fail \in {"none", "fetch"}, pattern \in {archiveRefPattern, HeadsPattern} :
           LET repo == ConcRepo
               remote == ConcRemote
               r == FetchAndReturnNewReviewHashes(refs[repo], refs[remote], notes,
                        remote, notesRefPattern, pattern, fail)
           IN  /\ refs' = [refs EXCEPT ![repo] = r.refs]
               /\ pc' = [at |-> IF r.err THEN "idle" ELSE "fetched",
                         steps |-> <<"fetch">>, repo |-> repo, remote |-> remote,
                         pattern |-> pattern, fail |-> fail, err |-> r.err,
                         before |-> refs[repo],
                         ncommits |-> Len(commits), nnotes |-> Len(notes),
                         again |-> PullDone /\ pc.pattern = pattern,
                         retry |-> FetchFailed]
    /\ UNCHANGED <<commits, notes, last, failures, discuss, loc, phase>>

\* The second call of PullNotesAndArchive: MergeArchives.
PullMergeArchivesStep ==
    /\ pc.at = "fetched"
    /\ LET r == MergeArchives(refs[pc.repo], commits, pc.remote, pc.pattern, "none")
       IN  /\ Len(r.commits) <= MaxCommits
           /\ refs' = [refs EXCEPT ![pc.repo] = r.refs]
           /\ commits' = r.commits
           /\ pc' = [pc EXCEPT !.at = IF r.err THEN "idle" ELSE "archives merged",
                               !.steps = Append(@, "MergeArchives"),
                               !.err = r.err]
    /\ UNCHANGED <<notes, last, failures, discuss, loc, phase>>

\* The third call of PullNotesAndArchive: MergeNotes.
PullMergeNotesStep ==
    /\ pc.at = "archives merged"
    /\ \E r \in MergeNotes(refs[pc.repo], notes, pc.remote, notesRefPattern, "none", {}) :
           /\ Len(r.notes) <= MaxNotes
           /\ refs' = [refs EXCEPT ![pc.repo] = r.refs]
           /\ notes' = r.notes
           /\ pc' = [pc EXCEPT !.at = "idle",
                               !.steps = Append(@, "MergeNotes"),
                               !.err = r.err]
    /\ UNCHANGED <<commits, last, failures, discuss, loc, phase>>

NextPullSteps ==
    \/ StepsAppend \/ StepsArchive
    \/ PullFetchStep \/ PullMergeArchivesStep \/ PullMergeNotesStep

SpecPullSteps == InitPullSteps /\ [][NextPullSteps]_vars

\* C26: PullNotesAndArchive performs its steps in the order: fetch, then
\* the merge of the annotation refs, then the merge of the archive refs.
C26_FetchThenNotesThenArchives ==
    \A i \in DOMAIN pc.steps :
        pc.steps[i] = <<"fetch", "MergeNotes", "MergeArchives">>[i]

\* The local annotation refs and the local archive ref of a replica.
LocalSynced(rs) == [ref \in (NotesNames \cup {ArchiveName}) \cap DOMAIN rs |-> rs[ref]]

\* C27: pulling a second time from the same remote, with no change on the
\* remote or locally in between, leaves every local annotation ref and every
\* local archive ref pointing at the same hash as after the first pull, and
\* creates no new commit.
C27_SecondPullChangesNothing ==
    (PullDone /\ pc.again) =>
        /\ LocalSynced(refs[pc.repo]) = LocalSynced(pc.before)
        /\ Len(commits) = pc.ncommits
        /\ Len(notes) = pc.nnotes

\* C28: if the fetch of PullNotesAndArchive fails, or it is given a devtools
\* ref pattern outside refs/devtools/, it returns an error without a merge,
\* and every local annotation ref and local archive ref is unchanged; a pull
\* that then runs to its end holds every annotation line and the archive tip
\* of the remote.
C28_FailedFetchMergesNothing ==
    /\ (pc.steps # <<>> /\ (pc.fail = "fetch" \/ ~HasPrefix(pc.pattern, devtoolsRefPrefix)))
         => /\ FetchFailed
            /\ LocalSynced(refs[pc.repo]) = LocalSynced(pc.before)
            /\ Len(commits) = pc.ncommits
            /\ Len(notes) = pc.nnotes
    /\ PullDone
         => /\ \A name \in NotesNames, o \in NotedObjects :
                  HeldIn(refs[pc.remote], notes, name, o)
                      \subseteq HeldIn(refs[pc.repo], notes, name, o)
            /\ RefExists(refs[pc.remote], ArchiveName)
                  => /\ RefExists(refs[pc.repo], ArchiveName)
                     /\ AncestorOf(commits, ArchiveOf(refs[pc.remote]),
                                   ArchiveOf(refs[pc.repo]))

\* A pull whose fetch had failed is repeated and brings in annotation lines
\* and an archive that the replica did not hold.
C28_Witness ==
    /\ PullDone
    /\ pc.retry
    /\ ArchiveOf(refs[pc.repo]) # ArchiveOf(pc.before)
    /\ \E name \in NotesNames, o \in NotedObjects :
           HeldIn(refs[pc.repo], notes, name, o) # HeldIn(pc.before, notes, name, o)

\* The object store that holds the history of a ref.
StoreOf(r) == IF HasPrefix(r, notesRefPrefix) THEN notes ELSE commits

\* C29: a push of notes and archive removes no annotation history and no
\* archive history from the remote: each pushed ref is either fast-forwarded
\* on the remote to the hash of the local ref, or the push fails and the
\* remote ref is as before; no ref of the remote is removed, or moved to a
\* hash that its old hash is not an ancestor of.
C29_PushOnlyFastForwards ==
    [][(last'.op = "PushNotesAndArchive" /\ (last' # last \/ refs' # refs)) =>
        LET rs == refs[last'.repo]
            before == refs[last'.remote]
            after == refs'[last'.remote]
        IN  /\ \A r \in PushedRefs(rs, "PushNotesAndArchive") :
                   \/ /\ RefExists(after, r)
                      /\ RefHash(after, r) = RefHash(rs, r)
                      /\ RefExists(before, r) =>
                             AncestorOf(StoreOf(r), RefHash(before, r), RefHash(rs, r))
                   \/ /\ last'.err
                      /\ RefExists(after, r) = RefExists(before, r)
                      /\ RefExists(before, r) => RefHash(after, r) = RefHash(before, r)
            /\ \A r \in DOMAIN before :
                   /\ RefExists(after, r)
                   /\ AncestorOf(StoreOf(r), RefHash(before, r), RefHash(after, r))]_vars

\* A push that failed: the remote took the archive ref and kept a notes ref
\* of its own that the local one had diverged from.
C29_Witness ==
    /\ last.op = "PushNotesAndArchive"
    /\ last.clean
    /\ last.err
    /\ RefExists(refs[last.repo], ArchiveName)
    /\ RefExists(refs[last.remote], ArchiveName)
    /\ ArchiveOf(refs[last.remote]) = ArchiveOf(refs[last.repo])
    /\ \E name \in NotesNames :
        /\ RefExists(refs[last.repo], name) /\ RefExists(refs[last.remote], name)
        /\ ~AncestorOf(notes, RefHash(refs[last.remote], name), RefHash(refs[last.repo], name))

\* Local refs under refs/notes/ and under refs/devtools/ that the mappings
\* are applied to, besides the refs the replicas hold.
SampleNotesRefs ==
    NotesNames \cup {notesRefPattern, notesRefPrefix,
                     <<"refs", "notes", "remotes", "B", "devtools", "reviews">>,
                     <<"refs", "notes", "commits">>}
SampleDevtoolsRefs ==
    {ArchiveName, archiveRefPattern, devtoolsRefPrefix, devtoolsRefPrefix \o <<"*">>,
     <<"refs", "devtools", "remoteDevtools", "B", "archives", "reviews">>}

HeldRefs(prefix) == {r \in UNION {DOMAIN refs[repo] : repo \in AllReplicas} : HasPrefix(r, prefix)}

\* The refs of rs that a fetch from the remote writes.
IsTracking(remote, r) ==
    \/ HasPrefix(r, notesRefPrefix \o <<"remotes", remote>>)
    \/ HasPrefix(r, remoteDevtoolsRefPrefix \o <<remote>>)

\* The remote-tracking name of a local ref.
TrackingOf(remote, r) ==
    IF HasPrefix(r, notesRefPrefix) THEN getRemoteNotesRef(remote, r)
    ELSE getRemoteDevtoolsRef(remote, r)

\* C30: for every remote and every local ref under refs/notes/ (under
\* refs/devtools/), the local name of its remote-tracking name is the ref
\* itself; and a pull that ran to its end changed, besides the
\* remote-tracking refs, only local refs whose remote-tracking ref exists, and
\* merged every remote-tracking notes and archive ref into the local ref of
\* the same relative name.
C30_LocalOfRemoteIsIdentity ==
    /\ \A remote \in AllReplicas :
        /\ \A ref \in SampleNotesRefs \cup HeldRefs(notesRefPrefix) :
               getLocalNotesRef(remote, getRemoteNotesRef(remote, ref)) = ref
        /\ \A ref \in SampleDevtoolsRefs \cup HeldRefs(devtoolsRefPrefix) :
               getLocalDevtoolsRef(remote, getRemoteDevtoolsRef(remote, ref)) = ref
    /\ PullDone =>
        LET rs == refs[pc.repo]
            tracked == getRefHashes(rs, getRemoteNotesRef(pc.remote, notesRefPattern))
                         \cup getRefHashes(rs, getRemoteDevtoolsRef(pc.remote, pc.pattern))
        IN  /\ \A r \in DOMAIN rs :
                   (~RefExists(pc.before, r) \/ RefHash(rs, r) # RefHash(pc.before, r)) =>
                       \/ IsTracking(pc.remote, r)
                       \/ TrackingOf(pc.remote, r) \in tracked
            /\ \A t \in tracked :
                   \E r \in DOMAIN rs :
                       /\ ~IsTracking(pc.remote, r)
                       /\ TrackingOf(pc.remote, r) = t
                       /\ RefExists(refs[pc.remote], r)
                       /\ AncestorOf(StoreOf(r), RefHash(rs, t), RefHash(rs, r))

\* A pull that merged a remote-tracking notes ref and a remote-tracking
\* archive ref into local refs that held something else before.
C30_Witness ==
    /\ PullDone
    /\ RefExists(pc.before, ArchiveName)
    /\ RefExists(pc.before, StepsNotesRef)
    /\ RefExists(refs[pc.repo], TrackingArchive(pc.remote))
    /\ RefExists(refs[pc.repo], getRemoteNotesRef(pc.remote, StepsNotesRef))
    /\ RefHash(refs[pc.repo], ArchiveName) # RefHash(pc.before, ArchiveName)
    /\ RefHash(refs[pc.repo], StepsNotesRef) # RefHash(pc.before, StepsNotesRef)
====
